---- MODULE Spec2Model ----
(***************************************************************************)
(* Model of the smartcar repository: the Zappi charging controller         *)
(* (charging_controller.py, and its older copy in smart.py) and the        *)
(* Smartcar OAuth token manager (token_manager.py).                         *)
(*                                                                         *)
(* Conventions.                                                            *)
(*  - A Python dict key that may be missing, and an optional argument, is  *)
(*    an option: <<>> is "absent / None", <<v>> is "present with value v". *)
(*  - Energy is counted in tenths of a kWh (28.5 kWh is 285).              *)
(*  - A call is one action; the record it leaves in `last` (charger) or    *)
(*    `tcall` (token manager) holds the call's inputs, its outcome and the *)
(*    requests it sent.                                                    *)
(*  - The authorization flow (two threads), the write of the token file    *)
(*    and a whole run of main() are followed step by step in `flow`,       *)
(*    `saver` and `run`.                                                   *)
(***************************************************************************)
EXTENDS Integers, Sequences, FiniteSets, TLC

VARIABLES
    zappi,                  \* the charger itself: [zmo, sta, che]
    energy_threshold_kwh,   \* config.energy_threshold_kwh (tenths of a kWh)
    last,                   \* the last ChargingController call
    now,                    \* time.time() at the last token manager call
    token_file,             \* tokens.json: <<>> when the file does not exist
    tokens,                 \* SmartcarTokenManager.tokens
    tcall,                  \* the last SmartcarTokenManager call
    flow,                   \* _get_authorization_code: main flow and listener thread
    saver,                  \* _save_tokens in progress: position in the write
    run                     \* the last run of main()

vars == <<zappi, energy_threshold_kwh, last, now, token_file, tokens, tcall,
          flow, saver, run>>

chargerVars == <<zappi, energy_threshold_kwh, last>>
tokenVars == <<now, token_file, tokens, tcall>>
auxVars == <<flow, saver, run>>

----------------------------------------------------------------------------
(* Options *)

None == <<>>
Some(v) == <<v>>
IsSome(o) == o # <<>>
Val(o) == o[1]
\* dict.get(key, default)
Get(o, default) == IF IsSome(o) THEN Val(o) ELSE default

----------------------------------------------------------------------------
(* Constants of charging_controller.py *)

ZAPPI_STOP_MODE == "4"
\* 28.5 kWh, in tenths of a kWh
ENERGY_THRESHOLD_KWH == 285

----------------------------------------------------------------------------
(* The values the charger API can answer with *)

Modes == {"1", "3", "4"}
Stas == {"1", "3"}
\* delivered energy of the session, tenths of a kWh
CheTenths == {260, 284, 285, 300}
\* config.energy_threshold_kwh, tenths of a kWh (25.0 is the default)
ConfigThresholds == {250, 300}

\* The shapes of a status payload: what the vendor may leave out, and how
\* the che value arrives. A che value is [kind, tenths] with kind
\*   num: a JSON number; numstr: a numeric string ("30.0");
\*   badstr: a string float() rejects; null: JSON null
Shapes == {"full_str", "full_num", "no_zappi", "empty_list", "no_zmo", "no_sta",
           "no_che", "bad_che", "null_che"}

CheField(dev, shape) ==
    CASE shape = "no_che"   -> None
      [] shape = "bad_che"  -> Some([kind |-> "badstr", tenths |-> 0])
      [] shape = "null_che" -> Some([kind |-> "null", tenths |-> 0])
      [] shape = "full_num" -> Some([kind |-> "num", tenths |-> dev.che])
      [] OTHER              -> Some([kind |-> "numstr", tenths |-> dev.che])

\* The JSON body of /cgi-jstatus-Z<serial> for a charger in state dev.
StatusBody(dev, shape) ==
    CASE shape = "no_zappi"   -> [zappi |-> None]
      [] shape = "empty_list" -> [zappi |-> Some(<<>>)]
      [] OTHER ->
           [zappi |-> Some(<<
               [zmo |-> IF shape = "no_zmo" THEN None ELSE Some(dev.zmo),
                sta |-> IF shape = "no_sta" THEN None ELSE Some(dev.sta),
                che |-> CheField(dev, shape)] >>)]

Devices == [zmo : Modes, sta : Stas, che : CheTenths]

\* The status dicts a caller can pass as the `status` argument: a caller
\* passes what it fetched (zappi.py: status = get_status()).
StatusPayloads(dev) == {StatusBody(dev, s) : s \in Shapes}

\* An HTTP exchange with the charger: the request does not get through,
\* gets a non-success status, a body that is not JSON, or a JSON body.
RespKinds == {"unreachable", "http_error", "not_json", "ok"}

StatusResponses(dev) ==
    {[kind |-> k, body |-> None] : k \in RespKinds \ {"ok"}}
    \cup {[kind |-> "ok", body |-> Some(StatusBody(dev, s))] : s \in Shapes}

StopResponses == {[kind |-> k, body |-> None] : k \in {"unreachable", "http_error", "ok"}}

NoResponse == [kind |-> "unused", body |-> None]

----------------------------------------------------------------------------
(* Result of a call: exc is "none" or the exception that leaves it *)

Outcome(exc, value, statusReq, stopReq, notes) ==
    [exc |-> exc, value |-> value, status_requests |-> statusReq,
     stop_requests |-> stopReq, notifications |-> notes]

\* charging_controller.py: ChargingController._zappi_request
ZappiRequest(resp) ==
    IF resp.kind = "unreachable" THEN "ChargingError" ELSE "none"

\* response.raise_for_status()
RaiseForStatus(resp) ==
    IF resp.kind = "http_error" THEN "HTTPError" ELSE "none"

\* charging_controller.py: ChargingController.get_status
\* [exc, status]: the parsed body, or the error raised
get_status(resp) ==
    IF ZappiRequest(resp) # "none"
    THEN [exc |-> "ChargingError", status |-> None]
    ELSE IF RaiseForStatus(resp) # "none"
    THEN [exc |-> "ChargingError", status |-> None]
    ELSE IF resp.kind = "not_json"
    THEN [exc |-> "ChargingError", status |-> None]
    ELSE [exc |-> "none", status |-> resp.body]

\* status["zappi"][0]: KeyError without the key, IndexError on an empty list
FirstZappi(status) ==
    IF ~IsSome(status.zappi) THEN [exc |-> "KeyError", entry |-> None]
    ELSE IF Len(Val(status.zappi)) = 0 THEN [exc |-> "IndexError", entry |-> None]
    ELSE [exc |-> "none", entry |-> Some(Val(status.zappi)[1])]

\* Python's bool as the call's value
PyBool(b) == IF b THEN "True" ELSE "False"

----------------------------------------------------------------------------
(* ChargingController, charging_controller.py *)

\* The status dict a call works on: its argument, or what get_status returns.
StatusUsed(status, resp) ==
    IF IsSome(status) THEN [exc |-> "none", status |-> status] ELSE get_status(resp)

\* A mutant of is_charging: the commented-out test of smart.py line 506,
\* "and charging_status == ZAPPI_CHARGING_STATUS", put back.
IsChargingAlsoSta(status, notify, resp) ==
    LET got == StatusUsed(status, resp)
        req == IF IsSome(status) THEN 0 ELSE 1
    IN  IF got.exc # "none" THEN Outcome("ChargingError", "None", req, 0, 0)
        ELSE LET first == FirstZappi(Val(got.status))
             IN  IF first.exc # "none" THEN Outcome("ChargingError", "None", req, 0, 0)
                 ELSE LET zappi_data == Val(first.entry)
                      IN  Outcome("none",
                                  PyBool(Get(zappi_data.zmo, "") # ZAPPI_STOP_MODE
                                         /\ Get(zappi_data.sta, "") = "3"),
                                  req, 0, IF notify THEN 1 ELSE 0)

\* ChargingController.is_charging(status=None, notify=True)
\* resp answers the status request, sent only when status is None.
is_charging(status, notify, resp) ==
    LET got == StatusUsed(status, resp)
        req == IF IsSome(status) THEN 0 ELSE 1
    IN  IF got.exc # "none" THEN Outcome("ChargingError", "None", req, 0, 0)
        ELSE LET first == FirstZappi(Val(got.status))
             IN  IF first.exc # "none" THEN Outcome("ChargingError", "None", req, 0, 0)
                 ELSE LET zappi_data == Val(first.entry)
                          zappi_mode == Get(zappi_data.zmo, "")
                      IN  Outcome("none", PyBool(zappi_mode # ZAPPI_STOP_MODE),
                                  req, 0, IF notify THEN 1 ELSE 0)

\* A mutant of StopRequest: raise_for_status() is left out, a non-success
\* answer to the mode-change request passes.
StopRequestNoRaiseForStatus(stopResp) ==
    IF ZappiRequest(stopResp) # "none" THEN "ChargingError" ELSE "none"

\* The mode-change request of stop_charging: the try block of lines 73-79.
StopRequest(stopResp) ==
    IF ZappiRequest(stopResp) # "none" THEN "ChargingError"
    ELSE IF RaiseForStatus(stopResp) # "none" THEN "ChargingError"
    ELSE "none"

\* A mutant of stop_charging: skip_check is ignored, the status is always
\* checked first.
StopChargingAlwaysChecks(skip_check, statusResp, stopResp) ==
    LET resp == IF statusResp = NoResponse
                THEN [kind |-> "ok", body |-> Some(StatusBody(zappi, "full_str"))]
                ELSE statusResp
        chk  == is_charging(None, TRUE, resp)
    IN  IF chk.exc # "none" THEN chk
        ELSE IF chk.value = "False" THEN [chk EXCEPT !.value = "None"]
        ELSE Outcome(StopRequest(stopResp), "None", 1, 1, chk.notifications)

\* A mutant of stop_charging: the guard is dropped, the stop is always sent.
StopChargingNoGuard(skip_check, statusResp, stopResp) ==
    Outcome(StopRequest(stopResp), "None", 0, 1, 0)

\* ChargingController.stop_charging(skip_check=False)
\* statusResp answers the status request of is_charging(), stopResp the
\* mode-change request; each is used only if that request is sent.
stop_charging(skip_check, statusResp, stopResp) ==
    LET chk == IF skip_check THEN Outcome("none", "True", 0, 0, 0)
               ELSE is_charging(None, TRUE, statusResp)
    IN  IF chk.exc # "none" THEN chk
        ELSE IF ~skip_check /\ chk.value = "False"
        THEN [chk EXCEPT !.value = "None"]
        ELSE Outcome(StopRequest(stopResp), "None",
                     chk.status_requests, 1, chk.notifications)

\* float(x) of a value taken from the payload
PyFloat(v) ==
    CASE v.kind = "badstr" -> [exc |-> "ValueError", tenths |-> 0]
      [] v.kind \in {"null", "list"} -> [exc |-> "TypeError", tenths |-> 0]
      [] OTHER             -> [exc |-> "none", tenths |-> v.tenths]

\* A mutant of check_energy_delivered: > in place of >=.
CheckEnergyStrict(status, statusResp, stopResp) ==
    LET got == StatusUsed(status, statusResp)
        req == IF IsSome(status) THEN 0 ELSE 1
    IN  IF got.exc # "none" THEN Outcome("ChargingError", "None", req, 0, 0)
        ELSE LET first == FirstZappi(Val(got.status))
             IN  IF first.exc # "none" THEN Outcome("ChargingError", "None", req, 0, 0)
                 ELSE LET f == PyFloat(Get(Val(first.entry).che, [kind |-> "num", tenths |-> 0]))
                      IN  IF f.exc # "none" THEN Outcome("ChargingError", "None", req, 0, 0)
                          ELSE IF f.tenths > ENERGY_THRESHOLD_KWH
                          THEN Outcome(StopRequest(stopResp), "None", req, 1, 1)
                          ELSE Outcome("none", "None", req, 0, 0)

\* ChargingController.check_energy_delivered(status=None)
\* The threshold is the module's ENERGY_THRESHOLD_KWH; the method does not
\* read self.config.energy_threshold_kwh.
check_energy_delivered(status, statusResp, stopResp) ==
    LET got == StatusUsed(status, statusResp)
        req == IF IsSome(status) THEN 0 ELSE 1
    IN  IF got.exc # "none" THEN Outcome("ChargingError", "None", req, 0, 0)
        ELSE LET first == FirstZappi(Val(got.status))
             IN  IF first.exc # "none" THEN Outcome("ChargingError", "None", req, 0, 0)
                 ELSE LET f == PyFloat(Get(Val(first.entry).che, [kind |-> "num", tenths |-> 0]))
                      IN  IF f.exc = "ValueError" THEN Outcome("ChargingError", "None", req, 0, 0)
                          ELSE IF f.exc # "none" THEN Outcome(f.exc, "None", req, 0, 0)
                          ELSE IF f.tenths >= ENERGY_THRESHOLD_KWH
                          THEN LET stop == stop_charging(TRUE, NoResponse, stopResp)
                               IN  Outcome(stop.exc, "None", req + stop.status_requests,
                                           stop.stop_requests, 1 + stop.notifications)
                          ELSE Outcome("none", "None", req, 0, 0)

----------------------------------------------------------------------------
(* ChargingController, the older copy in smart.py *)

\* A mutant of is_charging of smart.py: a missing zmo counts as the stop
\* mode.
SmartIsChargingDefaultStop(resp) ==
    IF ZappiRequest(resp) # "none" THEN Outcome("ChargingError", "None", 1, 0, 0)
    ELSE IF RaiseForStatus(resp) # "none" \/ resp.kind = "not_json"
    THEN Outcome("ChargingError", "None", 1, 0, 0)
    ELSE LET first == FirstZappi(Val(resp.body))
         IN  IF first.exc # "none" THEN Outcome("ChargingError", "None", 1, 0, 0)
             ELSE LET zappi_mode == Get(Val(first.entry).zmo, ZAPPI_STOP_MODE)
                  IN  Outcome("none", PyBool(zappi_mode # ZAPPI_STOP_MODE), 1, 0, 1)

\* smart.py: ChargingController.is_charging(): always fetches, always notifies
Smart_is_charging(resp) ==
    IF ZappiRequest(resp) # "none" THEN Outcome("ChargingError", "None", 1, 0, 0)
    ELSE IF RaiseForStatus(resp) # "none" \/ resp.kind = "not_json"
    THEN Outcome("ChargingError", "None", 1, 0, 0)
    ELSE LET first == FirstZappi(Val(resp.body))
         IN  IF first.exc # "none" THEN Outcome("ChargingError", "None", 1, 0, 0)
             ELSE LET zappi_mode == Get(Val(first.entry).zmo, "")
                  IN  Outcome("none", PyBool(zappi_mode # ZAPPI_STOP_MODE), 1, 0, 1)

\* smart.py: ChargingController.stop_charging(): no skip_check parameter
Smart_stop_charging(statusResp, stopResp) ==
    LET chk == Smart_is_charging(statusResp)
    IN  IF chk.exc # "none" THEN chk
        ELSE IF chk.value = "False" THEN [chk EXCEPT !.value = "None"]
        ELSE Outcome(StopRequest(stopResp), "None", 1, 1, chk.notifications)

----------------------------------------------------------------------------
(* The charger's side: a mode-change request that succeeds stops the charger *)

ZappiAfter(dev, out, stopResp) ==
    IF out.stop_requests > 0 /\ stopResp.kind = "ok"
    THEN [dev EXCEPT !.zmo = ZAPPI_STOP_MODE] ELSE dev

\* The payload a call evaluated: its argument, else the body it fetched.
Seen(status, resp) ==
    IF IsSome(status) THEN status
    ELSE IF resp.kind = "ok" THEN resp.body ELSE None

\* What a call leaves behind for inspection.
Call(op, status, notify, skip_check, statusResp, stopResp, out) ==
    [op |-> op, status |-> status, notify |-> notify, skip_check |-> skip_check,
     statusResp |-> statusResp, stopResp |-> stopResp,
     seen |-> Seen(status, statusResp), zmo_before |-> zappi.zmo,
     exc |-> out.exc, value |-> out.value,
     status_requests |-> out.status_requests,
     stop_requests |-> out.stop_requests,
     notifications |-> out.notifications]

NoCall == Call("none", None, FALSE, FALSE, NoResponse, NoResponse,
               Outcome("none", "None", 0, 0, 0))

\* The status argument of a call and the answer to the status request it
\* sends when the argument is None.
StatusInputs(dev) ==
    {<<Some(p), NoResponse>> : p \in StatusPayloads(dev)}
    \cup {<<None, r>> : r \in StatusResponses(dev)}

----------------------------------------------------------------------------
(* Actions of the charging controller *)

IsCharging ==
    \E in \in StatusInputs(zappi), notify \in BOOLEAN :
        LET out == is_charging(in[1], notify, in[2])
        IN  /\ last' = Call("is_charging", in[1], notify, FALSE, in[2], NoResponse, out)
            /\ UNCHANGED <<zappi, energy_threshold_kwh, tokenVars, auxVars>>

StopCharging ==
    \E skip_check \in BOOLEAN, stopResp \in StopResponses :
      \E sr \in IF skip_check THEN {NoResponse} ELSE StatusResponses(zappi) :
        LET out == stop_charging(skip_check, sr, stopResp)
            pr  == IF out.stop_requests > 0 THEN stopResp ELSE NoResponse
        IN  /\ last' = Call("stop_charging", None, TRUE, skip_check, sr, pr, out)
            /\ zappi' = ZappiAfter(zappi, out, pr)
            /\ UNCHANGED <<energy_threshold_kwh, tokenVars, auxVars>>

CheckEnergyDelivered ==
    \E in \in StatusInputs(zappi), stopResp \in StopResponses :
        LET out == check_energy_delivered(in[1], in[2], stopResp)
            pr  == IF out.stop_requests > 0 THEN stopResp ELSE NoResponse
        IN  /\ last' = Call("check_energy_delivered", in[1], TRUE, TRUE, in[2], pr, out)
            /\ zappi' = ZappiAfter(zappi, out, pr)
            /\ UNCHANGED <<energy_threshold_kwh, tokenVars, auxVars>>

SmartIsCharging ==
    \E resp \in StatusResponses(zappi) :
        LET out == Smart_is_charging(resp)
        IN  /\ last' = Call("smart.is_charging", None, TRUE, FALSE, resp, NoResponse, out)
            /\ UNCHANGED <<zappi, energy_threshold_kwh, tokenVars, auxVars>>

SmartStopCharging ==
    \E statusResp \in StatusResponses(zappi), stopResp \in StopResponses :
        LET out == Smart_stop_charging(statusResp, stopResp)
            pr  == IF out.stop_requests > 0 THEN stopResp ELSE NoResponse
        IN  /\ last' = Call("smart.stop_charging", None, TRUE, FALSE, statusResp, pr, out)
            /\ zappi' = ZappiAfter(zappi, out, pr)
            /\ UNCHANGED <<energy_threshold_kwh, tokenVars, auxVars>>

----------------------------------------------------------------------------
(* SmartcarTokenManager, token_manager.py *)

TOKEN_BUFFER_SECONDS == 60

\* Seconds of the model's clock
MaxNow == 90
\* time that passes before a call
Elapsed == {0, 29, 30}
\* expires_in of the token endpoint: the lifetime of the token it issues
ExpiresIn == {30, 90}
\* refresh tokens the endpoint issues; the stored record starts with "r1"
RefreshTokens == {"r2"}
\* expires_at of the record a first run finds in tokens.json
StoredExpiries == {30, 90}

TokenKeys == {"access_token", "refresh_token", "expires_in"}

\* An access token is named by the time at which the server lets it lapse.
AccessToken(lapses) == [lapses |-> lapses]

\* self.tokens == {}
EmptyTokens == [access_token |-> None, refresh_token |-> None, expires_at |-> None]

\* A record as the code writes it: the three fields, the expiry being that
\* of the access token.
CompleteTokens(lapses, rt) ==
    [access_token |-> Some(AccessToken(lapses)), refresh_token |-> Some(rt),
     expires_at |-> Some(lapses)]

\* What the token endpoint answers: no answer, a non-success status (401),
\* a body that is not JSON, or a JSON object with some of the three fields.
TokenResponses ==
    {[kind |-> k, fields |-> {}, life |-> 0, refresh_token |-> ""] :
        k \in {"unreachable", "http_error", "not_json"}}
    \cup [kind : {"json"}, fields : SUBSET TokenKeys, life : ExpiresIn,
          refresh_token : RefreshTokens]

NoTokenResponse == [kind |-> "unused", fields |-> {}, life |-> 0, refresh_token |-> ""]

\* What happens on the local callback listener during the authorization
\* wait: a redirect with a code, a redirect without one, no redirect within
\* the 300 s, or the listener cannot bind its port.
Redirects == {"code", "no_code", "none", "bind_fails"}

\* open(token_file, "w"): succeeds, or IOError
SaveOutcomes == {"ok", "io_error"}

TResult(exc, value, toks, file, refreshReq, exchangeReq, writes, flows) ==
    [exc |-> exc, value |-> value, tokens |-> toks, file |-> file,
     refresh_requests |-> refreshReq, exchange_requests |-> exchangeReq,
     file_writes |-> writes, flow_runs |-> flows]

\* The text of tokens.json: [complete, members]. members holds, for each key
\* of the JSON object, its JSON value [json, v] (json is "string" or
\* "number"); complete is FALSE for a text that is cut off, which json.load
\* rejects.
JsonMember(o, type) == IF IsSome(o) THEN Some([json |-> type, v |-> Val(o)]) ELSE None

\* A mutant of JsonDump: the expiry is written under another key, as
\* refresh_token.py writes expires_at_unix.
JsonDumpRenamesExpiry(toks) ==
    [complete |-> TRUE,
     members  |-> [access_token  |-> JsonMember(toks.access_token, "string"),
                   refresh_token |-> JsonMember(toks.refresh_token, "string"),
                   expires_at    |-> None]]

\* json.dump(self.tokens, f): a str becomes a JSON string, a float a JSON
\* number (its repr), a key the dict lacks is not written.
JsonDump(toks) ==
    [complete |-> TRUE,
     members  |-> [access_token  |-> JsonMember(toks.access_token, "string"),
                   refresh_token |-> JsonMember(toks.refresh_token, "string"),
                   expires_at    |-> JsonMember(toks.expires_at, "number")]]

\* json.load(f) of a complete text: each member back as a Python value.
JsonLoad(text) ==
    [k \in {"access_token", "refresh_token", "expires_at"} |->
        IF IsSome(text.members[k]) THEN Some(Val(text.members[k]).v) ELSE None]

\* json.load raises JSONDecodeError on a text that is cut off (also on an
\* empty file), which _load_tokens turns into TokenError.
LoadRaises(file) == IsSome(file) /\ ~Val(file).complete

\* SmartcarTokenManager._load_tokens, for a file json.load accepts
_load_tokens(file) == IF IsSome(file) THEN JsonLoad(Val(file)) ELSE EmptyTokens

\* SmartcarTokenManager._save_tokens: [exc, file, writes]
_save_tokens(toks, file, save) ==
    IF save = "ok"
    THEN [exc |-> "none", file |-> Some(JsonDump(toks)), writes |-> 1]
    ELSE [exc |-> "TokenError", file |-> file, writes |-> 0]

\* SmartcarTokenManager.has_tokens
has_tokens(toks) == IsSome(toks.refresh_token)

\* A mutant of _is_access_token_expired: the buffer is left out.
IsExpiredNoBuffer(toks, t) ==
    IF ~IsSome(toks.expires_at) \/ Get(toks.expires_at, 0) = 0 THEN TRUE
    ELSE t >= Val(toks.expires_at)

\* SmartcarTokenManager._is_access_token_expired, time.time() being t
_is_access_token_expired(toks, t) ==
    IF ~IsSome(toks.expires_at) \/ Get(toks.expires_at, 0) = 0 THEN TRUE
    ELSE t >= Val(toks.expires_at) - TOKEN_BUFFER_SECONDS

\* requests.post(TOKEN_URL, ...) followed by raise_for_status(), lines 84-91
\* and 116-122
TokenPost(resp) ==
    IF resp.kind \in {"unreachable", "http_error"} THEN "TokenError" ELSE "none"

\* token_data[...] of lines 95-97, in the order the code assigns them: a
\* missing key raises KeyError and leaves the earlier assignments in place.
RefreshAssign(toks, t, resp) ==
    LET a  == "access_token" \in resp.fields
        r  == a /\ "refresh_token" \in resp.fields
        e  == r /\ "expires_in" \in resp.fields
        t1 == IF a THEN [toks EXCEPT !.access_token = Some(AccessToken(t + resp.life))]
              ELSE toks
        t2 == IF r THEN [t1 EXCEPT !.refresh_token = Some(resp.refresh_token)] ELSE t1
        t3 == IF e THEN [t2 EXCEPT !.expires_at = Some(t + resp.life)] ELSE t2
    IN  [exc |-> IF e THEN "none" ELSE "KeyError", tokens |-> t3]

\* A mutant of _refresh_access_token: a failed request is tried once more.
RefreshRetries(toks, file, t, resp, save) ==
    IF ~IsSome(toks.refresh_token) THEN TResult("TokenError", None, toks, file, 0, 0, 0, 0)
    ELSE IF TokenPost(resp) # "none" THEN TResult("TokenError", None, toks, file, 2, 0, 0, 0)
    ELSE IF resp.kind = "not_json" THEN TResult("TokenError", None, toks, file, 1, 0, 0, 0)
    ELSE LET asg == RefreshAssign(toks, t, resp)
         IN  IF asg.exc # "none"
             THEN TResult("TokenError", None, asg.tokens, file, 1, 0, 0, 0)
             ELSE LET sv == _save_tokens(asg.tokens, file, save)
                  IN  IF sv.exc # "none"
                      THEN TResult("TokenError", None, asg.tokens, sv.file, 1, 0, 0, 0)
                      ELSE TResult("none", asg.tokens.access_token, asg.tokens, sv.file,
                                   1, 0, sv.writes, 0)

\* A mutant of _refresh_access_token: a failed request is logged and the
\* token at hand is returned.
RefreshReturnsStale(toks, file, t, resp, save) ==
    IF ~IsSome(toks.refresh_token) THEN TResult("TokenError", None, toks, file, 0, 0, 0, 0)
    ELSE IF TokenPost(resp) # "none"
    THEN TResult("none", toks.access_token, toks, file, 1, 0, 0, 0)
    ELSE IF resp.kind = "not_json" THEN TResult("TokenError", None, toks, file, 1, 0, 0, 0)
    ELSE LET asg == RefreshAssign(toks, t, resp)
         IN  IF asg.exc # "none"
             THEN TResult("TokenError", None, asg.tokens, file, 1, 0, 0, 0)
             ELSE LET sv == _save_tokens(asg.tokens, file, save)
                  IN  IF sv.exc # "none"
                      THEN TResult("TokenError", None, asg.tokens, sv.file, 1, 0, 0, 0)
                      ELSE TResult("none", asg.tokens.access_token, asg.tokens, sv.file,
                                   1, 0, sv.writes, 0)

\* A mutant of _refresh_access_token: the record is saved after each field
\* is assigned, so a response that lacks a later field is written in part.
RefreshSavesEachField(toks, file, t, resp, save) ==
    IF ~IsSome(toks.refresh_token) THEN TResult("TokenError", None, toks, file, 0, 0, 0, 0)
    ELSE IF TokenPost(resp) # "none" THEN TResult("TokenError", None, toks, file, 1, 0, 0, 0)
    ELSE IF resp.kind = "not_json" THEN TResult("TokenError", None, toks, file, 1, 0, 0, 0)
    ELSE LET asg == RefreshAssign(toks, t, resp)
             sv  == IF asg.tokens # toks THEN _save_tokens(asg.tokens, file, "ok")
                    ELSE [exc |-> "none", file |-> file, writes |-> 0]
         IN  IF asg.exc # "none" \/ sv.exc # "none"
             THEN TResult("TokenError", None, asg.tokens, sv.file, 1, 0, sv.writes, 0)
             ELSE TResult("none", asg.tokens.access_token, asg.tokens, sv.file,
                          1, 0, sv.writes, 0)

\* A mutant of _refresh_access_token: the new record is returned without
\* being saved.
RefreshNoSave(toks, file, t, resp, save) ==
    IF ~IsSome(toks.refresh_token) THEN TResult("TokenError", None, toks, file, 0, 0, 0, 0)
    ELSE IF TokenPost(resp) # "none" THEN TResult("TokenError", None, toks, file, 1, 0, 0, 0)
    ELSE IF resp.kind = "not_json" THEN TResult("TokenError", None, toks, file, 1, 0, 0, 0)
    ELSE LET asg == RefreshAssign(toks, t, resp)
         IN  IF asg.exc # "none"
             THEN TResult("TokenError", None, asg.tokens, file, 1, 0, 0, 0)
             ELSE TResult("none", asg.tokens.access_token, asg.tokens, file, 1, 0, 0, 0)

\* SmartcarTokenManager._refresh_access_token, time.time() being t
_refresh_access_token(toks, file, t, resp, save) ==
    IF ~IsSome(toks.refresh_token) THEN TResult("TokenError", None, toks, file, 0, 0, 0, 0)
    ELSE IF TokenPost(resp) # "none" THEN TResult("TokenError", None, toks, file, 1, 0, 0, 0)
    ELSE IF resp.kind = "not_json" THEN TResult("TokenError", None, toks, file, 1, 0, 0, 0)
    ELSE LET asg == RefreshAssign(toks, t, resp)
         IN  IF asg.exc # "none"
             THEN TResult("TokenError", None, asg.tokens, file, 1, 0, 0, 0)
             ELSE LET sv == _save_tokens(asg.tokens, file, save)
                  IN  IF sv.exc # "none"
                      THEN TResult("TokenError", None, asg.tokens, sv.file, 1, 0, 0, 0)
                      ELSE TResult("none", asg.tokens.access_token, asg.tokens, sv.file,
                                   1, 0, sv.writes, 0)

\* SmartcarTokenManager._get_authorization_code: the code, or TokenError when
\* the wait times out (the listener thread is still alive) or the thread
\* ended without putting a code in auth_code_holder.
_get_authorization_code(redirect) ==
    IF redirect = "code" THEN "none" ELSE "TokenError"

\* SmartcarTokenManager._run_initial_auth_flow, time.time() being t
_run_initial_auth_flow(toks, file, t, redirect, resp, save) ==
    IF _get_authorization_code(redirect) # "none"
    THEN TResult("TokenError", None, toks, file, 0, 0, 0, 1)
    ELSE IF TokenPost(resp) # "none" THEN TResult("TokenError", None, toks, file, 0, 1, 0, 1)
    ELSE IF resp.kind = "not_json" THEN TResult("TokenError", None, toks, file, 0, 1, 0, 1)
    ELSE IF resp.fields # TokenKeys THEN TResult("TokenError", None, toks, file, 0, 1, 0, 1)
    ELSE LET new == [access_token  |-> Some(AccessToken(t + resp.life)),
                     refresh_token |-> Some(resp.refresh_token),
                     expires_at    |-> Some(t + resp.life)]
             sv  == _save_tokens(new, file, save)
         IN  IF sv.exc # "none" THEN TResult("TokenError", None, new, sv.file, 0, 1, 0, 1)
             ELSE TResult("none", None, new, sv.file, 0, 1, sv.writes, 1)

\* self.tokens["access_token"] of line 71
ReturnAccessToken(r) ==
    IF IsSome(r.tokens.access_token) THEN [r EXCEPT !.value = r.tokens.access_token]
    ELSE [r EXCEPT !.exc = "KeyError"]

\* A mutant of get_access_token: the stored token is returned without the
\* expiry test.
GetAccessTokenNoExpiryTest(toks, file, t, redirect, resp, save) ==
    IF ~has_tokens(toks)
    THEN LET r == _run_initial_auth_flow(toks, file, t, redirect, resp, save)
         IN  IF r.exc # "none" THEN r ELSE ReturnAccessToken(r)
    ELSE ReturnAccessToken(TResult("none", None, toks, file, 0, 0, 0, 0))

\* A mutant of get_access_token: an expired record also starts the
\* authorization flow.
GetAccessTokenFlowOnExpiry(toks, file, t, redirect, resp, save) ==
    IF ~has_tokens(toks) \/ _is_access_token_expired(toks, t)
    THEN LET r == _run_initial_auth_flow(toks, file, t, redirect, resp, save)
         IN  IF r.exc # "none" THEN r ELSE ReturnAccessToken(r)
    ELSE ReturnAccessToken(TResult("none", None, toks, file, 0, 0, 0, 0))

\* SmartcarTokenManager.get_access_token, time.time() being t
get_access_token(toks, file, t, redirect, resp, save) ==
    IF ~has_tokens(toks)
    THEN LET r == _run_initial_auth_flow(toks, file, t, redirect, resp, save)
         IN  IF r.exc # "none" THEN r ELSE ReturnAccessToken(r)
    ELSE IF _is_access_token_expired(toks, t)
    THEN _refresh_access_token(toks, file, t, resp, save)
    ELSE ReturnAccessToken(TResult("none", None, toks, file, 0, 0, 0, 0))

----------------------------------------------------------------------------
(* Actions of the token manager *)

TokenCall(op, t, redirect, resp, save, r) ==
    [op |-> op, t |-> t, before |-> tokens, file_before |-> token_file,
     redirect |-> IF r.flow_runs > 0 THEN redirect ELSE "unused",
     resp |-> IF r.refresh_requests + r.exchange_requests > 0 THEN resp
              ELSE NoTokenResponse,
     save |-> IF r.refresh_requests + r.exchange_requests > 0
                 /\ resp.kind = "json" /\ resp.fields = TokenKeys
              THEN save ELSE "unused",
     exc |-> r.exc, value |-> r.value,
     refresh_requests |-> r.refresh_requests,
     exchange_requests |-> r.exchange_requests,
     file_writes |-> r.file_writes, flow_runs |-> r.flow_runs]

NoTokenCall ==
    [op |-> "none", t |-> 0, before |-> EmptyTokens, file_before |-> None,
     redirect |-> "unused", resp |-> NoTokenResponse, save |-> "unused",
     exc |-> "none", value |-> None, refresh_requests |-> 0,
     exchange_requests |-> 0, file_writes |-> 0, flow_runs |-> 0]

\* The inputs a call consumes: a redirect only when the authorization flow
\* runs, an answer of the token endpoint only when a request is sent, an
\* outcome of open() only when the record is saved.
RedirectInputs(toks) == IF has_tokens(toks) THEN {"unused"} ELSE Redirects

ResponseInputs(toks, t, redirect) ==
    IF has_tokens(toks)
    THEN IF _is_access_token_expired(toks, t) THEN TokenResponses ELSE {NoTokenResponse}
    ELSE IF redirect = "code" THEN TokenResponses ELSE {NoTokenResponse}

SaveInputs(resp) ==
    IF resp.kind = "json" /\ resp.fields = TokenKeys THEN SaveOutcomes ELSE {"unused"}

\* A run constructs its SmartcarTokenManager: __init__ loads the file.
NewTokenManager ==
    /\ tokens' = IF LoadRaises(token_file) THEN tokens ELSE _load_tokens(token_file)
    /\ tcall' = [NoTokenCall EXCEPT !.op = "__init__", !.t = now,
                                    !.before = tokens, !.file_before = token_file,
                                    !.exc = IF LoadRaises(token_file) THEN "TokenError"
                                            ELSE "none"]
    /\ UNCHANGED <<now, token_file, chargerVars, auxVars>>

GetAccessToken ==
    \E d \in Elapsed :
      \E redirect \in RedirectInputs(tokens) :
        \E resp \in ResponseInputs(tokens, now + d, redirect) :
          \E save \in SaveInputs(resp) :
        LET t == now + d
            r == get_access_token(tokens, token_file, t, redirect, resp, save)
        IN  /\ t <= MaxNow
            /\ now' = t
            /\ tokens' = r.tokens
            /\ token_file' = r.file
            /\ tcall' = TokenCall("get_access_token", t, redirect, resp, save, r)
            /\ UNCHANGED <<chargerVars, auxVars>>

----------------------------------------------------------------------------
(* Specifications *)

ChargerStart ==
    /\ zappi \in Devices
    /\ energy_threshold_kwh \in ConfigThresholds
    /\ last = NoCall

TokenStart ==
    /\ now = 0
    /\ token_file \in {None} \cup {Some(JsonDump(CompleteTokens(e, "r1"))) : e \in StoredExpiries}
    /\ tokens = _load_tokens(token_file)
    /\ tcall = NoTokenCall

\* The parts a specification does not exercise
ChargerUnused ==
    /\ zappi = [zmo |-> "1", sta |-> "3", che |-> 260]
    /\ energy_threshold_kwh = 250
    /\ last = NoCall

TokenUnused ==
    now = 0 /\ token_file = None /\ tokens = EmptyTokens /\ tcall = NoTokenCall

AuxUnused == flow = "unused" /\ saver = "unused" /\ run = "unused"

\* The charging controller
Init ==
    /\ ChargerStart
    /\ TokenUnused
    /\ AuxUnused

Next ==
    \/ IsCharging
    \/ StopCharging
    \/ CheckEnergyDelivered
    \/ SmartIsCharging
    \/ SmartStopCharging

Spec == Init /\ [][Next]_vars

\* The token manager
InitToken ==
    /\ ChargerUnused
    /\ AuxUnused
    /\ TokenStart

NextToken ==
    \/ NewTokenManager
    \/ GetAccessToken

SpecToken == InitToken /\ [][NextToken]_vars

\* The token manager on any tokens.json that json.load accepts: the file is
\* shared with other scripts and may hold a record that lacks fields.
LoadedRecords ==
    [access_token  : {None, Some(AccessToken(CHOOSE e \in StoredExpiries :
                                                \A f \in StoredExpiries : e >= f))},
     refresh_token : {None, Some("r1")},
     expires_at    : {None} \cup {Some(e) : e \in StoredExpiries}]

InitTokenAny ==
    /\ ChargerUnused
    /\ AuxUnused
    /\ now = 0
    /\ token_file \in {None} \cup {Some(JsonDump(r)) : r \in LoadedRecords}
    /\ tokens = _load_tokens(token_file)
    /\ tcall = NoTokenCall

SpecTokenAny == InitTokenAny /\ [][NextToken]_vars

----------------------------------------------------------------------------
(* The token file written and read back *)

\* Token records, complete or not, with values of both JSON types
TokenRecords ==
    [access_token  : {None} \cup {Some(AccessToken(e)) : e \in StoredExpiries},
     refresh_token : {None, Some("r1"), Some("r2")},
     expires_at    : {None} \cup {Some(e) : e \in StoredExpiries}]

\* The token file a record is saved over: none, or an older record
OlderFiles == {None, Some(JsonDump(CompleteTokens(30, "r0")))}

\* self._save_tokens()
SaveTokens ==
    \E save \in SaveOutcomes :
        LET sv == _save_tokens(tokens, token_file, save)
        IN  /\ tcall.op # "_save_tokens"
            /\ token_file' = sv.file
            /\ tcall' = [NoTokenCall EXCEPT !.op = "_save_tokens", !.before = tokens,
                                            !.file_before = token_file, !.save = save,
                                            !.exc = sv.exc, !.file_writes = sv.writes]
            /\ UNCHANGED <<now, tokens, chargerVars, auxVars>>

\* self._load_tokens() on the path just written; tcall.before keeps the
\* record that was saved.
LoadTokens ==
    /\ tcall.op = "_save_tokens" /\ tcall.exc = "none"
    /\ ~LoadRaises(token_file)
    /\ tokens' = _load_tokens(token_file)
    /\ tcall' = [NoTokenCall EXCEPT !.op = "_load_tokens", !.before = tcall.before,
                                    !.file_before = token_file]
    /\ UNCHANGED <<now, token_file, chargerVars, auxVars>>

InitRoundTrip ==
    /\ ChargerUnused
    /\ AuxUnused
    /\ now = 0
    /\ tokens \in TokenRecords
    /\ token_file \in OlderFiles
    /\ tcall = NoTokenCall

NextRoundTrip ==
    \/ SaveTokens
    \/ LoadTokens

SpecRoundTrip == InitRoundTrip /\ [][NextRoundTrip]_vars

----------------------------------------------------------------------------
(* _save_tokens step by step, and a crash of the process during it *)

MemberOrder == <<"access_token", "refresh_token", "expires_at">>

\* The text in the file when only the first n members of the record have
\* reached it: the object is not closed.
PartialText(toks, n) ==
    [complete |-> FALSE,
     members  |-> [k \in {"access_token", "refresh_token", "expires_at"} |->
                      IF \E i \in 1..n : MemberOrder[i] = k
                      THEN JsonDump(toks).members[k] ELSE None]]

\* open(self.token_file, "w"): the file is truncated to nothing, or open
\* raises IOError and _save_tokens raises TokenError.
SaveOpen ==
    /\ saver.pc = "idle"
    /\ \E out \in SaveOutcomes :
         IF out = "ok"
         THEN /\ token_file' = Some(PartialText(tokens, 0))
              /\ saver' = [saver EXCEPT !.pc = "opened"]
         ELSE /\ token_file' = token_file
              /\ saver' = [saver EXCEPT !.pc = "raised"]
    /\ UNCHANGED <<now, tokens, tcall, flow, run, chargerVars>>

\* json.dump(self.tokens, f): part of the text reaches the file.
SaveDump ==
    /\ saver.pc = "opened"
    /\ \E n \in 1..2 :
         /\ token_file' = Some(PartialText(tokens, n))
         /\ saver' = [saver EXCEPT !.pc = "dumping"]
    /\ UNCHANGED <<now, tokens, tcall, flow, run, chargerVars>>

\* The end of the with block: the rest is flushed and the file is closed.
SaveClose ==
    /\ saver.pc \in {"opened", "dumping"}
    /\ token_file' = Some(JsonDump(tokens))
    /\ saver' = [saver EXCEPT !.pc = "saved"]
    /\ UNCHANGED <<now, tokens, tcall, flow, run, chargerVars>>

\* The process is killed during _save_tokens.
Crash ==
    /\ saver.pc \in {"opened", "dumping"}
    /\ saver' = [saver EXCEPT !.pc = "crashed"]
    /\ UNCHANGED <<now, token_file, tokens, tcall, flow, run, chargerVars>>

\* The next run constructs its token manager on the file the crash left.
RunAfterCrash ==
    /\ saver.pc = "crashed"
    /\ tcall.op # "__init__"
    /\ NewTokenManager

InitSave ==
    /\ ChargerUnused
    /\ now = 0
    /\ tokens \in TokenRecords
    /\ token_file \in OlderFiles
    /\ tcall = NoTokenCall
    /\ saver = [pc |-> "idle", previous |-> token_file]
    /\ flow = "unused" /\ run = "unused"

NextSave ==
    \/ SaveOpen
    \/ SaveDump
    \/ SaveClose
    \/ Crash
    \/ RunAfterCrash

SpecSave == InitSave /\ [][NextSave]_vars

----------------------------------------------------------------------------
(* Two runs that overlap on one tokens.json: no lock, each run loads the   *)
(* file and saves its record with _save_tokens, step by step               *)

Runs == {1, 2}

\* The record a run has obtained and saves
RecordsToSave ==
    {CompleteTokens(e, rt) : e \in StoredExpiries, rt \in RefreshTokens \cup {"r3"}}

\* A run before it has done anything
NewRun(rec) == [pc |-> "start", record |-> rec, load_exc |-> "none", loaded_during_save |-> FALSE]

\* Another run is between its open(token_file, "w") and the end of its
\* with block.
OtherIsSaving(r) ==
    \E o \in Runs \ {r} : saver.runs[o].pc \in {"opened", "dumping"}

\* SmartcarTokenManager.__init__ of run r: _load_tokens on the file as it
\* is now; a text json.load rejects gives TokenError and ends the run.
RunLoads ==
    \E r \in Runs :
      /\ saver.runs[r].pc = "start"
      /\ saver' = [saver EXCEPT
                      !.runs[r].pc = IF LoadRaises(token_file) THEN "failed" ELSE "loaded",
                      !.runs[r].load_exc = IF LoadRaises(token_file) THEN "TokenError"
                                           ELSE "none",
                      !.runs[r].loaded_during_save = OtherIsSaving(r)]
      /\ UNCHANGED <<now, token_file, tokens, tcall, flow, run, chargerVars>>

\* open(self.token_file, "w") of run r: the file is truncated to nothing.
RunOpens ==
    \E r \in Runs :
      /\ saver.runs[r].pc = "loaded"
      /\ token_file' = Some(PartialText(saver.runs[r].record, 0))
      /\ saver' = [saver EXCEPT !.runs[r].pc = "opened"]
      /\ UNCHANGED <<now, tokens, tcall, flow, run, chargerVars>>

\* json.dump of run r: part of its text reaches the file.
RunDumps ==
    \E r \in Runs, n \in 1..2 :
      /\ saver.runs[r].pc = "opened"
      /\ token_file' = Some(PartialText(saver.runs[r].record, n))
      /\ saver' = [saver EXCEPT !.runs[r].pc = "dumping"]
      /\ UNCHANGED <<now, tokens, tcall, flow, run, chargerVars>>

\* The end of the with block of run r: its whole text is in the file.
RunCloses ==
    \E r \in Runs :
      /\ saver.runs[r].pc \in {"opened", "dumping"}
      /\ token_file' = Some(JsonDump(saver.runs[r].record))
      /\ saver' = [saver EXCEPT !.runs[r].pc = "saved"]
      /\ UNCHANGED <<now, tokens, tcall, flow, run, chargerVars>>

InitOverlap ==
    /\ ChargerUnused
    /\ now = 0
    /\ tokens = EmptyTokens
    /\ tcall = NoTokenCall
    /\ token_file \in OlderFiles
    /\ \E rec1, rec2 \in RecordsToSave :
         saver = [previous |-> token_file,
                  runs |-> [r \in Runs |-> NewRun(IF r = 1 THEN rec1 ELSE rec2)]]
    /\ flow = "unused" /\ run = "unused"

NextOverlap ==
    \/ RunLoads
    \/ RunOpens
    \/ RunDumps
    \/ RunCloses

SpecOverlap == InitOverlap /\ [][NextOverlap]_vars

----------------------------------------------------------------------------
(* _get_authorization_code: the main flow and the listener thread, step by  *)
(* step, followed by the exchange of _run_initial_auth_flow                 *)

\* server_thread.join(timeout=300)
AUTH_TIMEOUT_SECONDS == 300

\* The wait is followed in steps of WaitStep seconds.
WaitStep == 150

\* Requests the browser may send to the redirect port in one flow
MaxRedirects == 2

\* The query of a request to the listener: with a code parameter or without
Queries == {"code", "no_code"}

\* CallbackHandler.do_GET: the code goes into auth_code_holder and the
\* answer is 200, or the answer is 400.
do_GET(query) ==
    IF query = "code" THEN [code |-> TRUE, status |-> 200]
    ELSE [code |-> FALSE, status |-> 400]

\* A mutant of handle_request: the listener goes on serving until a request
\* carries a code.
HandleRequestUntilCode(query) ==
    [code |-> do_GET(query).code, status |-> do_GET(query).status,
     listener |-> IF query = "code" THEN "ended" ELSE "serving"]

\* A mutant of handle_request: serve_forever, the listener goes on serving
\* after each request.
HandleRequestServesForever(query) ==
    [code |-> do_GET(query).code, status |-> do_GET(query).status,
     listener |-> "serving"]

\* server.handle_request() in start_server: one request is served, then
\* start_server returns and the thread ends.
handle_request(query) ==
    [code |-> do_GET(query).code, status |-> do_GET(query).status,
     listener |-> "ended"]

\* A mutant of JoinOutcome: the is_alive test is left out, a wait that
\* timed out goes on to the exchange.
JoinOutcomeNoAliveTest(alive, holder) ==
    IF alive \/ holder THEN "code" ELSE "no_code"

\* What follows server_thread.join: TokenError when the thread is still
\* alive, TokenError when auth_code_holder has no code, else the code.
JoinOutcome(alive, holder) ==
    IF alive THEN "timeout"
    ELSE IF ~holder THEN "no_code"
    ELSE "code"

\* The listener thread exists and has not ended.
ListenerAlive == flow.listener \in {"created", "serving"}

NoFlow ==
    [main |-> "start", listener |-> "not_started", bound |-> FALSE,
     browser |-> "not_opened", bound_at_open |-> "not_opened",
     waited |-> 0, timed_out |-> FALSE, holder |-> FALSE,
     queries |-> <<>>, responses |-> <<>>, lost |-> 0, served_at_test |-> 0,
     exc |-> "none", exchange_requests |-> 0, file_writes |-> 0]

\* server_thread = threading.Thread(target=start_server); server_thread.start()
StartThread ==
    /\ flow.main = "start"
    /\ flow' = [flow EXCEPT !.main = "thread_started", !.listener = "created"]
    /\ UNCHANGED <<chargerVars, tokenVars, saver, run>>

\* start_server, in the thread: HTTPServer(("localhost", PORT), ...) binds the
\* port, or raises OSError and the thread dies.
ListenerBind ==
    /\ flow.listener = "created"
    /\ \E ok \in BOOLEAN :
         flow' = IF ok THEN [flow EXCEPT !.listener = "serving", !.bound = TRUE]
                 ELSE [flow EXCEPT !.listener = "died"]
    /\ UNCHANGED <<chargerVars, tokenVars, saver, run>>

\* webbrowser.open(full_auth_url); a failure is logged with the URL.
OpenBrowser ==
    /\ flow.main = "thread_started"
    /\ \E opened \in BOOLEAN :
         flow' = [flow EXCEPT !.main = "joining",
                              !.browser = IF opened THEN "opened" ELSE "failed",
                              !.bound_at_open = IF flow.bound THEN "bound" ELSE "unbound"]
    /\ UNCHANGED <<chargerVars, tokenVars, saver, run>>

\* The browser, once it has the URL, sends a request to the redirect port:
\* the listener serves it, or nothing listens and it is lost.
Redirect ==
    /\ flow.browser # "not_opened"
    /\ Len(flow.queries) + flow.lost < MaxRedirects
    /\ \E q \in Queries :
         IF flow.listener = "serving"
         THEN LET h == handle_request(q)
              IN  flow' = [flow EXCEPT !.holder = flow.holder \/ h.code,
                                       !.queries = Append(flow.queries, q),
                                       !.responses = Append(flow.responses, h.status),
                                       !.listener = h.listener,
                                       !.bound = (h.listener = "serving")]
         ELSE flow' = [flow EXCEPT !.lost = flow.lost + 1]
    /\ UNCHANGED <<chargerVars, tokenVars, saver, run>>

\* Time passes while the main flow waits in join.
Tick ==
    /\ flow.main = "joining"
    /\ ListenerAlive
    /\ flow.waited < AUTH_TIMEOUT_SECONDS
    /\ flow' = [flow EXCEPT !.waited = flow.waited + WaitStep]
    /\ UNCHANGED <<chargerVars, tokenVars, saver, run>>

\* join returns because the thread has ended.
JoinReturns ==
    /\ flow.main = "joining"
    /\ ~ListenerAlive
    /\ flow' = [flow EXCEPT !.main = "joined"]
    /\ UNCHANGED <<chargerVars, tokenVars, saver, run>>

\* join returns because 300 seconds have passed.
JoinTimesOut ==
    /\ flow.main = "joining"
    /\ ListenerAlive
    /\ flow.waited >= AUTH_TIMEOUT_SECONDS
    /\ flow' = [flow EXCEPT !.main = "joined", !.timed_out = TRUE]
    /\ UNCHANGED <<chargerVars, tokenVars, saver, run>>

\* if server_thread.is_alive(): raise ...; if "code" not in auth_code_holder:
\* raise ...; return auth_code_holder["code"]
AfterJoin ==
    /\ flow.main = "joined"
    /\ LET o == JoinOutcome(ListenerAlive, flow.holder)
       IN  flow' = [flow EXCEPT !.main = IF o = "code" THEN "got_code" ELSE "raised",
                                !.exc = IF o = "code" THEN "none" ELSE "TokenError",
                                !.served_at_test = Len(flow.queries)]
    /\ UNCHANGED <<chargerVars, tokenVars, saver, run>>

\* _run_initial_auth_flow once it has the code: the exchange and the save
ExchangeCode ==
    /\ flow.main = "got_code"
    /\ \E resp \in TokenResponses :
         \E save \in SaveInputs(resp) :
           LET r == _run_initial_auth_flow(tokens, token_file, now, "code", resp, save)
           IN  /\ tokens' = r.tokens
               /\ token_file' = r.file
               /\ flow' = [flow EXCEPT !.main = IF r.exc = "none" THEN "returned"
                                                ELSE "raised",
                                       !.exc = r.exc,
                                       !.exchange_requests = r.exchange_requests,
                                       !.file_writes = r.file_writes]
    /\ UNCHANGED <<chargerVars, now, tcall, saver, run>>

InitAuth ==
    /\ ChargerUnused
    /\ TokenUnused
    /\ flow = NoFlow
    /\ saver = "unused" /\ run = "unused"

NextAuth ==
    \/ StartThread
    \/ ListenerBind
    \/ OpenBrowser
    \/ Redirect
    \/ Tick
    \/ JoinReturns
    \/ JoinTimesOut
    \/ AfterJoin
    \/ ExchangeCode

SpecAuth == InitAuth /\ [][NextAuth]_vars

----------------------------------------------------------------------------
(* A run: main() of smart.py, and the script zappi.py *)

\* percentRemaining >= BATTERY_THRESHOLD, in hundredths (0.8 is 80)
BATTERY_THRESHOLD == 80

\* The environment of a run: whether the five required variables are set
\* and not empty, the value of CHECK_BATTERY if it is set, and whether
\* DISCORD_WEBHOOK_URL is set.
Environments ==
    [required : BOOLEAN, check_battery_env : {None, Some("True")}, webhook : BOOLEAN]

\* str.lower() of the values CHECK_BATTERY takes here
PyLower(str) ==
    CASE str = "True"  -> "true"
      [] str = "False" -> "false"
      [] OTHER         -> str

\* A mutant of from_env: CHECK_BATTERY defaults to "True".
FromEnvDefaultsOn(env) ==
    IF ~env.required THEN [ok |-> FALSE, check_battery |-> FALSE, webhook |-> FALSE]
    ELSE [ok |-> TRUE,
          check_battery |-> PyLower(Get(env.check_battery_env, "True")) = "true",
          webhook |-> env.webhook]

\* Config.from_env(): ValueError when a required variable is missing, else
\* the configuration; os.getenv("CHECK_BATTERY", "False").lower() == "true".
from_env(env) ==
    IF ~env.required THEN [ok |-> FALSE, check_battery |-> FALSE, webhook |-> FALSE]
    ELSE [ok |-> TRUE,
          check_battery |-> PyLower(Get(env.check_battery_env, "False")) = "true",
          webhook |-> env.webhook]

\* The configurations a run can start with
Configs == {from_env(env) : env \in Environments}

\* What the webhook answers to a notification
NotifyResponses == {[kind |-> k] : k \in {"ok", "unreachable", "http_error"}}

NoNotifyResponse == [kind |-> "unused"]

\* A mutant of send_discord_notification: a failed delivery is raised to the
\* caller.
SendNotificationRaises(webhook, resp) ==
    IF ~webhook THEN [exc |-> "none", posts |-> 0]
    ELSE IF resp.kind \in {"unreachable", "http_error"}
    THEN [exc |-> "RequestException", posts |-> 1]
    ELSE [exc |-> "none", posts |-> 1]

\* NotificationService.send_discord_notification: nothing is sent without a
\* webhook URL; a RequestException of the post or of raise_for_status is
\* logged and swallowed.
send_discord_notification(webhook, resp) ==
    IF ~webhook THEN [exc |-> "none", posts |-> 0]
    ELSE IF resp.kind \in {"unreachable", "http_error"}
    THEN [exc |-> "none", posts |-> 1]
    ELSE [exc |-> "none", posts |-> 1]

\* What the vehicle API answers to the battery request; percent is
\* percentRemaining in hundredths, absent when the body has no such key.
BatteryResponses ==
    {[kind |-> k, percent |-> None] : k \in {"unreachable", "http_error", "not_json", "json"}}
    \cup {[kind |-> "json", percent |-> Some(p)] : p \in {79, 80, 100}}

NoBatteryResponse == [kind |-> "unused", percent |-> None]

\* The answers of the charger a run is given
RunStatusResponses(dev) ==
    {[kind |-> k, body |-> None] : k \in {"unreachable", "http_error"}}
    \cup {[kind |-> "ok", body |-> Some(StatusBody(dev, sh))] :
             sh \in {"full_str", "empty_list", "no_zmo"}}

\* The answers of the token endpoint a run is given
RunTokenResponses ==
    {r \in TokenResponses :
        r.kind = "http_error" \/ (r.kind = "json" /\ r.fields = TokenKeys)}

\* The inputs of a run: the environment, and what each service answers if
\* it is asked.
RunInputs(env, notify, statusResp, redirect, tokenResp, save, battery, statusResp2, stopResp) ==
    [env |-> env, notify |-> notify, statusResp |-> statusResp,
     redirect |-> redirect, tokenResp |-> tokenResp, save |-> save,
     battery |-> battery, statusResp2 |-> statusResp2, stopResp |-> stopResp]

\* What a run did: its exit code, the kind of error that ended it, what
\* is_charging returned, the requests sent and the objects constructed.
\* n is what send_discord_notification does in this run.
RunResult(exit, error, charging, out, tm, clients, tk, batteryReq, n) ==
    [exit |-> exit, error |-> error, is_charging |-> charging,
     status_requests |-> out.status_requests, stop_requests |-> out.stop_requests,
     notifications |-> out.notifications,
     notification_posts |-> out.notifications * n.posts,
     token_managers |-> tm, clients |-> clients,
     token_requests |-> tk.refresh_requests + tk.exchange_requests,
     flow_runs |-> tk.flow_runs,
     battery_requests |-> batteryReq, energy_checks |-> 0,
     tokens |-> tk.tokens, file |-> tk.file]

\* The battery request and the parsing of its answer: VehicleError, or the
\* percentage.
BatteryRequest(battery) ==
    IF battery.kind \in {"unreachable", "http_error"} THEN "VehicleError"
    ELSE IF battery.kind = "not_json" \/ ~IsSome(battery.percent) THEN "VehicleError"
    ELSE "none"

\* smartcar_client.py: SmartcarClient.check_battery_level, after
\* get_access_token has returned: the battery request, the notification,
\* stop_charging(skip_check=True).
check_battery_level(battery, stopResp) ==
    IF BatteryRequest(battery) # "none" THEN Outcome("VehicleError", "None", 0, 0, 0)
    ELSE IF Val(battery.percent) >= BATTERY_THRESHOLD
    THEN LET st == stop_charging(TRUE, NoResponse, stopResp)
         IN  [st EXCEPT !.notifications = st.notifications + 1]
    ELSE Outcome("none", "None", 0, 0, 1)

\* A mutant of check_battery_level of smart.py: below the threshold the
\* charger is stopped as well.
SmartCheckBatteryLevelStopsBelow(battery, statusResp2, stopResp) ==
    IF BatteryRequest(battery) # "none" THEN Outcome("VehicleError", "None", 0, 0, 0)
    ELSE LET st == IF Val(battery.percent) >= BATTERY_THRESHOLD
                   THEN Smart_stop_charging(statusResp2, stopResp)
                   ELSE Outcome("none", "None", 1, 1, 1)
         IN  [st EXCEPT !.notifications = st.notifications + 1]

\* smart.py: SmartcarClient.check_battery_level, after get_access_token has
\* returned: the battery request, the notification, stop_charging().
Smart_check_battery_level(battery, statusResp2, stopResp) ==
    IF BatteryRequest(battery) # "none" THEN Outcome("VehicleError", "None", 0, 0, 0)
    ELSE IF Val(battery.percent) >= BATTERY_THRESHOLD
    THEN LET st == Smart_stop_charging(statusResp2, stopResp)
         IN  [st EXCEPT !.notifications = st.notifications + 1]
    ELSE Outcome("none", "None", 0, 0, 1)

\* Two calls one after the other: the requests and notifications add up.
Then(a, b) ==
    [b EXCEPT !.status_requests = a.status_requests + b.status_requests,
              !.stop_requests = a.stop_requests + b.stop_requests,
              !.notifications = a.notifications + b.notifications]

\* The error kind of an exception that ends a run
ErrorKind(exc) ==
    CASE exc = "none"          -> "none"
      [] exc = "TokenError"    -> "token"
      [] exc = "VehicleError"  -> "vehicle"
      [] exc = "ChargingError" -> "charger"
      [] OTHER                 -> "unexpected"

NoTokenUse(toks, file) == TResult("none", None, toks, file, 0, 0, 0, 0)

\* The part of main() after the is-charging gate: the token manager and the
\* client are constructed, then the battery check if it is enabled.
RunSmartcar(in, toks, file, t, chk, n) ==
    LET cfg  == from_env(in.env)
        idle == NoTokenUse(toks, file)
    IN  IF LoadRaises(file) THEN RunResult(1, "token", chk.value, chk, 1, 0, idle, 0, n)
        ELSE IF ~cfg.check_battery
        THEN RunResult(0, "none", chk.value, chk, 1, 1,
                       [idle EXCEPT !.tokens = _load_tokens(file)], 0, n)
        ELSE LET tk == get_access_token(_load_tokens(file), file, t,
                                        in.redirect, in.tokenResp, in.save)
             IN  IF tk.exc # "none"
                 THEN RunResult(1, ErrorKind(tk.exc), chk.value, chk, 1, 1, tk, 0, n)
                 ELSE LET b == Smart_check_battery_level(in.battery, in.statusResp2,
                                                         in.stopResp)
                      IN  RunResult(IF b.exc = "none" THEN 0 ELSE 1, ErrorKind(b.exc),
                                    chk.value, Then(chk, b), 1, 1, tk, 1, n)

\* A mutant of main: the Smartcar services are set up before the charger is
\* asked, whatever it answers.
MainSmartcarFirst(in, toks, file, t) ==
    LET cfg == from_env(in.env)
        n   == send_discord_notification(cfg.webhook, in.notify)
        nothing == Outcome("none", "None", 0, 0, 0)
    IN  IF ~cfg.ok
        THEN RunResult(1, "config", "None", nothing, 0, 0, NoTokenUse(toks, file), 0, n)
        ELSE LET chk == Smart_is_charging(in.statusResp)
             IN  IF chk.exc # "none"
                 THEN RunResult(1, "charger", "None", chk, 1, 1, NoTokenUse(toks, file), 0, n)
                 ELSE IF n.exc # "none"
                 THEN RunResult(1, "unexpected", "None", chk, 1, 1, NoTokenUse(toks, file), 0, n)
                 ELSE IF chk.value = "False"
                 THEN RunResult(0, "none", "False", [chk EXCEPT !.notifications = @ + 1],
                                1, 1, NoTokenUse(toks, file), 0, n)
                 ELSE RunSmartcar(in, toks, file, t, chk, n)

\* smart.py: main(). An exception of send_discord_notification would leave
\* is_charging() and main() uncaught (exit code 1).
main(in, toks, file, t) ==
    LET cfg == from_env(in.env)
        n   == send_discord_notification(cfg.webhook, in.notify)
        nothing == Outcome("none", "None", 0, 0, 0)
    IN  IF ~cfg.ok
        THEN RunResult(1, "config", "None", nothing, 0, 0, NoTokenUse(toks, file), 0, n)
        ELSE LET chk == Smart_is_charging(in.statusResp)
             IN  IF chk.exc # "none"
                 THEN RunResult(1, "charger", "None", chk, 0, 0, NoTokenUse(toks, file), 0, n)
                 ELSE IF n.exc # "none"
                 THEN RunResult(1, "unexpected", "None", chk, 0, 0, NoTokenUse(toks, file), 0, n)
                 ELSE IF chk.value = "False"
                 THEN RunResult(0, "none", "False", [chk EXCEPT !.notifications = @ + 1],
                                0, 0, NoTokenUse(toks, file), 0, n)
                 ELSE RunSmartcar(in, toks, file, t, chk, n)

\* zappi.py, run as a script: the status is fetched and given to
\* is_charging(status=status, notify=False); exit(1) when not charging. The
\* module does not import logging, so a configuration error ends in
\* NameError; every uncaught exception ends the script with exit code 1.
zappi_script(in, toks, file) ==
    LET cfg == from_env(in.env)
        n   == send_discord_notification(cfg.webhook, in.notify)
        nothing == Outcome("none", "None", 0, 0, 0)
        idle == NoTokenUse(toks, file)
    IN  IF ~cfg.ok THEN RunResult(1, "config", "None", nothing, 0, 0, idle, 0, n)
        ELSE LET got == get_status(in.statusResp)
             IN  IF got.exc # "none"
                 THEN RunResult(1, "charger", "None",
                                Outcome("ChargingError", "None", 1, 0, 0), 0, 0, idle, 0, n)
                 ELSE LET chk == is_charging(got.status, FALSE, NoResponse)
                          req == [chk EXCEPT !.status_requests = 1]
                      IN  IF chk.exc # "none"
                          THEN RunResult(1, "charger", "None", req, 0, 0, idle, 0, n)
                          ELSE IF chk.value = "False"
                          THEN RunResult(1, "none", "False", req, 0, 0, idle, 0, n)
                          ELSE RunResult(0, "none", "True", req, 0, 0, idle, 0, n)

\* The inputs a run consumes, the others being left unused
StatusInputsOfRun(env) ==
    IF from_env(env).ok THEN RunStatusResponses(zappi) ELSE {NoResponse}

ChargingFound(statusResp) ==
    statusResp.kind = "ok" /\ Smart_is_charging(statusResp).value = "True"

\* A notification is delivered only with a webhook URL, and the first one
\* is sent by is_charging once it has a first zappi entry.
NotifyInputsOfRun(env, statusResp) ==
    IF from_env(env).webhook /\ statusResp.kind = "ok"
       /\ Smart_is_charging(statusResp).exc = "none"
    THEN NotifyResponses ELSE {NoNotifyResponse}

\* What get_access_token consumes on the record loaded from file at time t
TokenInputsFor(file, t) ==
    LET toks == _load_tokens(file)
    IN  {x \in (Redirects \cup {"unused"})
               \X (RunTokenResponses \cup {NoTokenResponse})
               \X (SaveOutcomes \cup {"unused"}) :
           /\ x[1] \in RedirectInputs(toks)
           /\ x[2] \in ResponseInputs(toks, t, x[1])
           /\ x[3] \in SaveInputs(x[2])}

TokenInputsOfRun(env, statusResp) ==
    IF from_env(env).check_battery /\ ChargingFound(statusResp) /\ ~LoadRaises(token_file)
    THEN TokenInputsFor(token_file, now)
    ELSE {<<"unused", NoTokenResponse, "unused">>}

\* The record a run leaves
RunRecord(op, in, r) ==
    [op |-> op, in |-> in, zmo_before |-> zappi.zmo, out |-> r]

\* One run of smart.py. A run is a process of its own: what it finds is the
\* charger and the token file, which the initial states range over, so a
\* behaviour follows a single run.
Main ==
    /\ run.op = "none"
    /\ \E env \in Environments :
      \E statusResp \in StatusInputsOfRun(env) :
       \E notify \in NotifyInputsOfRun(env, statusResp) :
        \E tki \in TokenInputsOfRun(env, statusResp) :
          LET tokenOk == get_access_token(_load_tokens(token_file), token_file, now,
                                          tki[1], tki[2], tki[3]).exc = "none"
              asked   == from_env(env).check_battery /\ ChargingFound(statusResp)
                         /\ ~LoadRaises(token_file) /\ tokenOk
          IN
          \E battery \in IF asked THEN BatteryResponses ELSE {NoBatteryResponse} :
            LET stops == asked /\ IsSome(battery.percent)
                         /\ Val(battery.percent) >= BATTERY_THRESHOLD
            IN
            \E statusResp2 \in IF stops THEN RunStatusResponses(zappi) ELSE {NoResponse} :
              \E stopResp \in IF stops /\ ChargingFound(statusResp2)
                              THEN StopResponses ELSE {NoResponse} :
                LET in == RunInputs(env, notify, statusResp, tki[1], tki[2], tki[3],
                                    battery, statusResp2, stopResp)
                    r  == main(in, tokens, token_file, now)
                IN  /\ run' = RunRecord("smart.main", in, r)
                    /\ tokens' = r.tokens
                    /\ token_file' = r.file
                    /\ zappi' = ZappiAfter(zappi, r, stopResp)
                    /\ UNCHANGED <<energy_threshold_kwh, last, now, tcall, flow, saver>>

\* One run of zappi.py
ZappiScript ==
    /\ run.op = "none"
    /\ \E env \in Environments :
      \E statusResp \in StatusInputsOfRun(env) :
        LET in == RunInputs(env, NoNotifyResponse, statusResp, "unused", NoTokenResponse,
                            "unused", NoBatteryResponse, NoResponse, NoResponse)
            r  == zappi_script(in, tokens, token_file)
        IN  /\ run' = RunRecord("zappi.py", in, r)
            /\ UNCHANGED <<chargerVars, tokenVars, flow, saver>>

NoRun ==
    [op |-> "none",
     in |-> RunInputs([required |-> FALSE, check_battery_env |-> None, webhook |-> FALSE],
                      NoNotifyResponse, NoResponse, "unused", NoTokenResponse, "unused",
                      NoBatteryResponse, NoResponse, NoResponse),
     zmo_before |-> "",
     out |-> RunResult(0, "none", "None", Outcome("none", "None", 0, 0, 0), 0, 0,
                       NoTokenUse(EmptyTokens, None), 0, [exc |-> "none", posts |-> 0])]

InitMain ==
    /\ zappi \in {d \in Devices : d.che = 260}
    /\ energy_threshold_kwh = 250
    /\ last = NoCall
    /\ TokenStart
    /\ flow = "unused" /\ saver = "unused"
    /\ run = NoRun

NextMain ==
    \/ Main
    \/ ZappiScript

SpecMain == InitMain /\ [][NextMain]_vars

----------------------------------------------------------------------------
(* The battery check called on its own: SmartcarClient.check_battery_level *)
(* of smartcar_client.py and of smart.py                                    *)

\* The environments in which the objects of the call exist: the required
\* variables are set. The call does not read CHECK_BATTERY.
CallEnvironments ==
    {env \in Environments : env.required /\ env.check_battery_env = None}

\* One call of check_battery_level: _get_headers() asks the token manager
\* of the client for an access token, then the battery check proper.
BatteryCall(op, in, toks, file, t) ==
    LET tk == get_access_token(toks, file, t, in.redirect, in.tokenResp, in.save)
        n  == send_discord_notification(from_env(in.env).webhook, in.notify)
        nothing == Outcome("none", "None", 0, 0, 0)
    IN  IF tk.exc # "none"
        THEN RunResult(1, ErrorKind(tk.exc), "None", nothing, 1, 1, tk, 0, n)
        ELSE LET b == IF op = "check_battery_level"
                      THEN check_battery_level(in.battery, in.stopResp)
                      ELSE Smart_check_battery_level(in.battery, in.statusResp2,
                                                     in.stopResp)
             IN  RunResult(IF b.exc = "none" THEN 0 ELSE 1, ErrorKind(b.exc),
                           "None", b, 1, 1, tk, 1, n)

\* The battery answer is asked for once the access token is there
BatteryInputs(tki) ==
    IF get_access_token(tokens, token_file, now, tki[1], tki[2], tki[3]).exc = "none"
    THEN BatteryResponses ELSE {NoBatteryResponse}

\* The battery level read is at or above the threshold
AtThreshold(battery) ==
    /\ BatteryRequest(battery) = "none"
    /\ Val(battery.percent) >= BATTERY_THRESHOLD

\* The notification of the battery level is sent once the level is read
NotifyInputsOfCall(env, battery) ==
    IF env.webhook /\ BatteryRequest(battery) = "none"
    THEN NotifyResponses ELSE {NoNotifyResponse}

\* smartcar_client.py: one call of check_battery_level
CheckBatteryLevel ==
    /\ run.op = "none"
    /\ \E env \in CallEnvironments, tki \in TokenInputsFor(token_file, now) :
        \E battery \in BatteryInputs(tki) :
         \E notify \in NotifyInputsOfCall(env, battery) :
          \E stopResp \in IF AtThreshold(battery) THEN StopResponses ELSE {NoResponse} :
            LET in == RunInputs(env, notify, NoResponse, tki[1], tki[2], tki[3],
                                battery, NoResponse, stopResp)
                r  == BatteryCall("check_battery_level", in, tokens, token_file, now)
            IN  /\ run' = RunRecord("check_battery_level", in, r)
                /\ tokens' = r.tokens
                /\ token_file' = r.file
                /\ zappi' = ZappiAfter(zappi, r, stopResp)
                /\ UNCHANGED <<energy_threshold_kwh, last, now, tcall, flow, saver>>

\* smart.py: one call of check_battery_level
SmartCheckBatteryLevel ==
    /\ run.op = "none"
    /\ \E env \in CallEnvironments, tki \in TokenInputsFor(token_file, now) :
        \E battery \in BatteryInputs(tki) :
         \E notify \in NotifyInputsOfCall(env, battery) :
          \E statusResp2 \in IF AtThreshold(battery)
                             THEN RunStatusResponses(zappi) ELSE {NoResponse} :
           \E stopResp \in IF AtThreshold(battery) /\ ChargingFound(statusResp2)
                           THEN StopResponses ELSE {NoResponse} :
            LET in == RunInputs(env, notify, NoResponse, tki[1], tki[2], tki[3],
                                battery, statusResp2, stopResp)
                r  == BatteryCall("smart.check_battery_level", in, tokens, token_file, now)
            IN  /\ run' = RunRecord("smart.check_battery_level", in, r)
                /\ tokens' = r.tokens
                /\ token_file' = r.file
                /\ zappi' = ZappiAfter(zappi, r, stopResp)
                /\ UNCHANGED <<energy_threshold_kwh, last, now, tcall, flow, saver>>

InitBattery == InitMain

NextBattery ==
    \/ CheckBatteryLevel
    \/ SmartCheckBatteryLevel

SpecBattery == InitBattery /\ [][NextBattery]_vars

----------------------------------------------------------------------------
(* Process start: load_energy_threshold and Config.from_env of config.py *)

\* The value load_energy_threshold falls back to, tenths of a kWh (25.0)
DEFAULT_KWH_NEEDED == 250

\* The values of kwh_needed in battery.json: a JSON number or a numeric
\* string (tenths of a kWh), a string float() rejects, null, a list.
KwhTenths == {0 - 10, 0, 1, 250, 285, 300, 500}

KwhValues ==
    {[kind |-> k, tenths |-> v] : k \in {"num", "numstr"}, v \in KwhTenths}
    \cup {[kind |-> k, tenths |-> 0] : k \in {"badstr", "null", "list"}}

\* battery.json: missing, not JSON, a JSON value that is not an object
\* (null, a list, a number), or an object with or without kwh_needed.
BatteryJsonFiles ==
    {[kind |-> k, kwh_needed |-> None] :
        k \in {"missing", "not_json", "null", "list", "number", "object"}}
    \cup {[kind |-> "object", kwh_needed |-> Some(v)] : v \in KwhValues}

NoBatteryJson == [kind |-> "unused", kwh_needed |-> None]

\* load_energy_threshold: FileNotFoundError, JSONDecodeError and ValueError
\* give 25.0; data.get on a value that is not a dict raises AttributeError,
\* float() of None or of a list raises TypeError, and neither is caught.
load_energy_threshold(file) ==
    CASE file.kind \in {"missing", "not_json"} ->
             [exc |-> "none", value |-> DEFAULT_KWH_NEEDED]
      [] file.kind \in {"null", "list", "number"} ->
             [exc |-> "AttributeError", value |-> 0]
      [] OTHER ->
             LET f == PyFloat(Get(file.kwh_needed,
                                  [kind |-> "num", tenths |-> DEFAULT_KWH_NEEDED]))
             IN  IF f.exc = "ValueError"
                 THEN [exc |-> "none", value |-> DEFAULT_KWH_NEEDED]
                 ELSE [exc |-> f.exc, value |-> f.tenths]

\* Config.from_env with the thresholds: the required variables first, then
\* load_energy_threshold(); the battery threshold is the module constant.
ConfigFromEnv(env, file) ==
    IF ~from_env(env).ok
    THEN [exc |-> "ValueError", energy_threshold_kwh |-> 0, battery_threshold |-> 0]
    ELSE LET th == load_energy_threshold(file)
         IN  [exc |-> th.exc, energy_threshold_kwh |-> th.value,
              battery_threshold |-> IF th.exc = "none" THEN BATTERY_THRESHOLD ELSE 0]

\* The record of a process start
StartRecord(op, env, file, r) ==
    [op |-> op, env |-> env, file |-> file, out |-> r]

NoStart ==
    StartRecord("none", [required |-> FALSE, check_battery_env |-> None, webhook |-> FALSE],
                NoBatteryJson,
                [exc |-> "none", energy_threshold_kwh |-> 0, battery_threshold |-> 0])

\* load_energy_threshold() called on the battery.json it finds
LoadEnergyThreshold ==
    /\ run.op = "none"
    /\ \E file \in BatteryJsonFiles :
         LET th == load_energy_threshold(file)
         IN  run' = StartRecord("load_energy_threshold", NoStart.env, file,
                                [exc |-> th.exc, energy_threshold_kwh |-> th.value,
                                 battery_threshold |-> 0])
    /\ UNCHANGED <<chargerVars, tokenVars, flow, saver>>

\* Config.from_env() at process start: battery.json is read only when the
\* required variables are set.
ProcessStart ==
    /\ run.op = "none"
    /\ \E env \in Environments :
        \E file \in IF from_env(env).ok THEN BatteryJsonFiles ELSE {NoBatteryJson} :
         LET r == ConfigFromEnv(env, file)
         IN  /\ run' = StartRecord("Config.from_env", env, file, r)
             /\ energy_threshold_kwh' = IF r.exc = "none" THEN r.energy_threshold_kwh
                                        ELSE energy_threshold_kwh
    /\ UNCHANGED <<zappi, last, tokenVars, flow, saver>>

InitConfig ==
    /\ ChargerUnused
    /\ TokenUnused
    /\ flow = "unused" /\ saver = "unused"
    /\ run = NoStart

NextConfig ==
    \/ LoadEnergyThreshold
    \/ ProcessStart

SpecConfig == InitConfig /\ [][NextConfig]_vars

----------------------------------------------------------------------------
(* The standalone refresh script refresh_token.py, and a SmartcarTokenManager *)
(* that loads the file it wrote                                               *)

\* datetime.isoformat() of the epoch second e: a str
IsoFormat(e) == [iso |-> e]

\* json.dump of the record refresh_access_token of the script builds:
\* expires_at is the ISO string of line 61. The epoch number goes under
\* expires_at_unix (line 62), a key SmartcarTokenManager never reads, as are
\* refreshed_at and refreshed_at_unix.
ScriptDump(access, refresh, expires_at_unix) ==
    [complete |-> TRUE,
     members  |-> [access_token  |-> Some([json |-> "string", v |-> access]),
                   refresh_token |-> Some([json |-> "string", v |-> refresh]),
                   expires_at    |-> Some([json |-> "string",
                                           v |-> IsoFormat(expires_at_unix)])]]

ScriptResult(exit, exc, file, requests, writes) ==
    [exit |-> exit, exc |-> exc, file |-> file, requests |-> requests, writes |-> writes]

\* refresh_token.py run as a script at time t: load_tokens, the refresh
\* request, the record, save_tokens. Every exception ends in exit(1).
refresh_script(file, t, resp, save) ==
    IF ~IsSome(file) THEN ScriptResult(1, "FileNotFoundError", file, 0, 0)
    ELSE IF LoadRaises(file) THEN ScriptResult(1, "JSONDecodeError", file, 0, 0)
    ELSE IF ~IsSome(Val(file).members.refresh_token)
    THEN ScriptResult(1, "KeyError", file, 0, 0)
    ELSE IF resp.kind \in {"unreachable", "http_error"}
    THEN ScriptResult(1, "RequestException", file, 1, 0)
    ELSE IF resp.kind = "not_json" THEN ScriptResult(1, "ValueError", file, 1, 0)
    ELSE IF resp.fields # TokenKeys THEN ScriptResult(1, "KeyError", file, 1, 0)
    ELSE IF save # "ok" THEN ScriptResult(1, "IOError", file, 1, 0)
    ELSE ScriptResult(0, "none",
                      Some(ScriptDump(AccessToken(t + resp.life), resp.refresh_token,
                                      t + resp.life)),
                      1, 1)

\* The inputs the script consumes on a file
ScriptResponses(file) ==
    IF IsSome(file) /\ ~LoadRaises(file) /\ IsSome(Val(file).members.refresh_token)
    THEN RunTokenResponses ELSE {NoTokenResponse}

\* tokens.json holds an expires_at that json.load gives back as a str.
ExpiresAtIsString(file) ==
    /\ IsSome(file)
    /\ Val(file).complete
    /\ IsSome(Val(file).members.expires_at)
    /\ Val(Val(file).members.expires_at).json = "string"

NoScriptRun ==
    [op |-> "none", t |-> 0, resp |-> NoTokenResponse, save |-> "unused",
     out |-> ScriptResult(0, "none", None, 0, 0)]

\* One run of refresh_token.py
RefreshScript ==
    \E d \in Elapsed :
      \E resp \in ScriptResponses(token_file) :
        \E save \in SaveInputs(resp) :
          LET t == now + d
              r == refresh_script(token_file, t, resp, save)
          IN  /\ t <= MaxNow
              /\ now' = t
              /\ token_file' = r.file
              /\ run' = [op |-> "refresh_token.py", t |-> t, resp |-> resp,
                         save |-> save, out |-> r]
              /\ UNCHANGED <<chargerVars, tokens, tcall, flow, saver>>

\* One run of the main program up to its access token: a new
\* SmartcarTokenManager loads the file and get_access_token is called. With
\* a refresh token and a truthy expires_at that is a str,
\* `expires_at - TOKEN_BUFFER_SECONDS` of line 63 raises TypeError.
ManagerRun ==
    /\ ~LoadRaises(token_file)
    /\ \E d \in Elapsed :
         LET t      == now + d
             loaded == _load_tokens(token_file)
             stringExpiry == has_tokens(loaded) /\ ExpiresAtIsString(token_file)
         IN  /\ t <= MaxNow
             /\ now' = t
             /\ \E tki \in IF stringExpiry THEN {<<"unused", NoTokenResponse, "unused">>}
                           ELSE TokenInputsFor(token_file, t) :
                  LET r == IF stringExpiry
                           THEN TResult("TypeError", None, loaded, token_file, 0, 0, 0, 0)
                           ELSE get_access_token(loaded, token_file, t,
                                                 tki[1], tki[2], tki[3])
                  IN  /\ tokens' = r.tokens
                      /\ token_file' = r.file
                      /\ tcall' = [TokenCall("get_access_token", t, tki[1], tki[2],
                                             tki[3], r)
                                      EXCEPT !.before = loaded]
    /\ UNCHANGED <<chargerVars, flow, saver, run>>

InitScript ==
    /\ ChargerUnused
    /\ TokenStart
    /\ flow = "unused" /\ saver = "unused"
    /\ run = NoScriptRun

NextScript ==
    \/ RefreshScript
    \/ ManagerRun

SpecScript == InitScript /\ [][NextScript]_vars

----------------------------------------------------------------------------
(* Properties of the charging controller (checked under Spec) *)

\* The payload the last call evaluated has a first zappi entry.
HasFirstEntry ==
    /\ IsSome(last.seen)
    /\ IsSome(Val(last.seen).zappi)
    /\ Len(Val(Val(last.seen).zappi)) > 0

FirstEntry == Val(Val(last.seen).zappi)[1]

\* The delivered energy of the evaluated payload is a number or a numeric
\* string.
HasEnergy ==
    /\ HasFirstEntry
    /\ IsSome(FirstEntry.che)
    /\ Val(FirstEntry.che).kind \in {"num", "numstr"}

Energy == Val(FirstEntry.che).tenths

\* C1: for every status payload with a first zappi entry, is_charging (in
\* charging_controller.py and in smart.py) returns False when the entry's zmo
\* is "4" and True for every other mode value, whatever sta is.
C1_IsChargingDecidedByMode ==
    (last.op \in {"is_charging", "smart.is_charging"} /\ HasFirstEntry) =>
        /\ last.exc = "none"
        /\ FirstEntry.zmo = Some(ZAPPI_STOP_MODE) => last.value = "False"
        /\ (IsSome(FirstEntry.zmo) /\ FirstEntry.zmo # Some(ZAPPI_STOP_MODE))
               => last.value = "True"

\* C1 witness: is_charging answered True for a charger whose state code is
\* not "3" (paused), its mode not being "4".
C1_Witness ==
    /\ last.op = "is_charging" /\ HasFirstEntry
    /\ FirstEntry.zmo = Some("1") /\ FirstEntry.sta = Some("1")
    /\ last.value = "True"

\* C2: check_energy_delivered sends a stop request exactly when the delivered
\* energy is at least the threshold it applies (ENERGY_THRESHOLD_KWH): at the
\* threshold and above, one notification and one stop request; strictly
\* below, neither.
C2_StopExactlyAtThreshold ==
    last.op = "check_energy_delivered" =>
        /\ last.stop_requests > 0 <=> (HasEnergy /\ Energy >= ENERGY_THRESHOLD_KWH)
        /\ (HasEnergy /\ Energy >= ENERGY_THRESHOLD_KWH)
               => (last.stop_requests = 1 /\ last.notifications = 1)
        /\ (HasEnergy /\ Energy < ENERGY_THRESHOLD_KWH)
               => (last.stop_requests = 0 /\ last.notifications = 0
                   /\ last.exc = "none")

\* C2 witness: the energy equals the threshold and the stop was sent.
C2_Witness ==
    /\ last.op = "check_energy_delivered" /\ HasEnergy
    /\ Energy = ENERGY_THRESHOLD_KWH
    /\ last.stop_requests = 1 /\ last.notifications = 1

\* C3: the threshold of check_energy_delivered is config.energy_threshold_kwh:
\* whenever the delivered energy exceeds the configured threshold, the call
\* stops the charge once and sends one notification.
C3_ConfiguredThresholdApplies ==
    (last.op = "check_energy_delivered" /\ HasEnergy
     /\ Energy > energy_threshold_kwh) =>
        (last.stop_requests = 1 /\ last.notifications = 1)

\* C4: stop_charging(skip_check=True) sends exactly one mode-change request
\* and no status request, whatever the charger's mode; it raises only when
\* that request fails, and then ChargingError.
C4_SkipCheckAlwaysStopsOnce ==
    (last.op = "stop_charging" /\ last.skip_check) =>
        /\ last.stop_requests = 1
        /\ last.status_requests = 0
        /\ last.exc \in {"none", "ChargingError"}
        /\ last.exc = "none" <=> last.stopResp.kind = "ok"

\* C4 witness: a charger already in mode "4" was sent the stop, without error.
C4_Witness ==
    /\ last.op = "stop_charging" /\ last.skip_check
    /\ last.zmo_before = ZAPPI_STOP_MODE
    /\ last.stop_requests = 1 /\ last.exc = "none"

\* C5: stop_charging(skip_check=False), and smart.py's stop_charging(), on a
\* charger that is_charging reports as not charging (mode "4") send no stop
\* request and return normally.
C5_NoStopWhenNotCharging ==
    (/\ \/ last.op = "stop_charging" /\ ~last.skip_check
        \/ last.op = "smart.stop_charging"
     /\ last.statusResp.kind = "ok" /\ HasFirstEntry
     /\ FirstEntry.zmo = Some(ZAPPI_STOP_MODE)) =>
        (last.stop_requests = 0 /\ last.exc = "none")

\* C5 witness: such a call on a charger in mode "4".
C5_Witness ==
    /\ last.op = "stop_charging" /\ ~last.skip_check
    /\ last.statusResp.kind = "ok" /\ HasFirstEntry
    /\ FirstEntry.zmo = Some(ZAPPI_STOP_MODE)
    /\ last.zmo_before = ZAPPI_STOP_MODE
    /\ last.stop_requests = 0 /\ last.status_requests = 1

----------------------------------------------------------------------------
(* Properties of the token manager (checked under SpecToken) *)

IsGet == tcall.op = "get_access_token"

\* The record the call started with was expired: now >= expires_at - 60.
ExpiredAtCall ==
    /\ IsSome(tcall.before.expires_at)
    /\ tcall.t >= Val(tcall.before.expires_at) - TOKEN_BUFFER_SECONDS

\* The answer of the token endpoint is a success with the three fields.
GoodResponse == tcall.resp.kind = "json" /\ tcall.resp.fields = TokenKeys

\* C6: a token that get_access_token returns has not lapsed, and the expiry
\* stored with it is later than the current time, also right after an
\* authorization exchange or a refresh; a failed refresh raises.
C6_NeverReturnsExpiredToken ==
    IsGet =>
        /\ tcall.exc = "none" =>
              /\ IsSome(tcall.value)
              /\ tcall.value = tokens.access_token
              /\ Val(tcall.value).lapses > tcall.t
              /\ IsSome(tokens.expires_at)
              /\ Val(tokens.expires_at) > tcall.t
        /\ (tcall.refresh_requests > 0 /\ ~(GoodResponse /\ tcall.save = "ok"))
              => (tcall.exc = "TokenError" /\ tcall.value = None)

\* C6 witness: an expired record was refreshed and the new token returned.
C6_Witness ==
    /\ IsGet /\ tcall.exc = "none" /\ tcall.refresh_requests = 1
    /\ Val(tcall.before.expires_at) < tcall.t
    /\ Val(tcall.value).lapses > tcall.t

\* C7: a call sends a refresh request if and only if, at the time of the
\* call, now >= expires_at - 60 for the record it holds.
C7_RefreshIffWithinBuffer ==
    IsGet => (tcall.refresh_requests > 0 <=> ExpiredAtCall)

\* C7 witness: a refresh at the very second the buffer starts.
C7_Witness ==
    /\ IsGet /\ tcall.refresh_requests = 1
    /\ IsSome(tcall.before.expires_at)
    /\ tcall.t = Val(tcall.before.expires_at) - TOKEN_BUFFER_SECONDS

\* C8: a call on an expired record sends exactly one refresh request, also
\* when the refresh fails; no call sends more than one request to the token
\* endpoint.
C8_OneTokenRequestPerCall ==
    IsGet =>
        /\ tcall.refresh_requests + tcall.exchange_requests <= 1
        /\ ExpiredAtCall => tcall.refresh_requests = 1

\* C8 witness: the record had expired, the one refresh failed.
C8_Witness ==
    /\ IsGet /\ tcall.refresh_requests = 1 /\ tcall.exc = "TokenError"
    /\ Val(tcall.before.expires_at) < tcall.t

\* C9: a refresh answered with a non-success status, or that fails in
\* transport, makes get_access_token fail with TokenError and leaves the
\* token file as it was.
C9_FailedRefreshLeavesFile ==
    (IsGet /\ tcall.refresh_requests > 0
     /\ tcall.resp.kind \in {"http_error", "unreachable"}) =>
        /\ tcall.exc = "TokenError"
        /\ tcall.file_writes = 0
        /\ token_file = tcall.file_before

\* C9 witness: the refresh got a non-success status while a token file exists.
C9_Witness ==
    /\ IsGet /\ tcall.refresh_requests = 1 /\ tcall.resp.kind = "http_error"
    /\ IsSome(tcall.file_before) /\ tcall.exc = "TokenError"

\* C10: in the refresh and in the authorization-code exchange, an answer with
\* a non-success status, a body that is not JSON, or a JSON object lacking
\* access_token, refresh_token or expires_in makes the call fail with
\* TokenError and nothing is written to the token file.
C10_BadResponseIsTokenError ==
    (IsGet /\ tcall.refresh_requests + tcall.exchange_requests > 0
     /\ ~GoodResponse) =>
        /\ tcall.exc = "TokenError"
        /\ tcall.file_writes = 0
        /\ token_file = tcall.file_before

\* C10 witness: the exchange was answered without expires_in.
C10_Witness ==
    /\ IsGet /\ tcall.exchange_requests = 1 /\ tcall.resp.kind = "json"
    /\ tcall.resp.fields = {"access_token", "refresh_token"}
    /\ tcall.exc = "TokenError" /\ token_file = None

\* C11: whenever get_access_token cannot produce a token it fails with
\* TokenError and with no other error, whatever record was loaded.
C11_OnlyTokenError ==
    (IsGet /\ tcall.exc # "none") => tcall.exc = "TokenError"

\* C12: when get_access_token returns a token it has just obtained (by a
\* refresh or by the initial exchange), the record has been written: the
\* token file, loaded again, gives the record in memory.
C12_SavedBeforeReturn ==
    (IsGet /\ tcall.exc = "none"
     /\ tcall.refresh_requests + tcall.exchange_requests > 0) =>
        /\ tcall.file_writes = 1
        /\ IsSome(token_file) /\ ~LoadRaises(token_file)
        /\ _load_tokens(token_file) = tokens
        /\ tokens.access_token = tcall.value

\* C12 witness: the initial exchange succeeded where no file existed.
C12_Witness ==
    /\ IsGet /\ tcall.exc = "none" /\ tcall.exchange_requests = 1
    /\ tcall.file_before = None /\ IsSome(token_file)
    /\ JsonLoad(Val(token_file)).access_token = tcall.value

\* A record is complete: the three fields, the expiry being that of the
\* access token.
IsComplete(r) ==
    /\ IsSome(r.access_token) /\ IsSome(r.refresh_token) /\ IsSome(r.expires_at)
    /\ Val(r.access_token).lapses = Val(r.expires_at)

\* C15: starting from an absent or complete record, after any sequence of
\* get_access_token calls the record in memory and the token file are each
\* absent/empty or complete.
C15_RecordAbsentOrComplete ==
    /\ tokens = EmptyTokens \/ IsComplete(tokens)
    /\ token_file = None
       \/ (~LoadRaises(token_file) /\ IsComplete(_load_tokens(token_file)))

\* C13: after a crash during _save_tokens the token file holds the complete
\* previous record (or is absent as before) or the complete new record.
C13_CrashLeavesCompleteFile ==
    saver.pc = "crashed" =>
        \/ token_file = saver.previous
        \/ token_file = Some(JsonDump(tokens))

----------------------------------------------------------------------------
(* Properties of overlapping runs (checked under SpecOverlap) *)

\* The token file is as it was before the runs, or holds the whole record
\* of one of them.
FileFullyFormed ==
    \/ token_file = saver.previous
    \/ \E r \in Runs : token_file = Some(JsonDump(saver.runs[r].record))

\* C31: while two runs overlap and save, the token file holds at every
\* moment the previous record or the whole record of one of the runs, and
\* no run that loads the file fails on a partial record.
C31_OverlappingSavesKeepFile ==
    /\ FileFullyFormed
    /\ \A r \in Runs : saver.runs[r].load_exc = "none"

----------------------------------------------------------------------------
(* Properties of the authorization flow (checked under SpecAuth) *)

\* The main flow has left _run_initial_auth_flow.
FlowOver == flow.main \in {"raised", "returned"}

\* C16: with no stored refresh token, when the 300-second wait times out
\* and no redirect has been served, the flow fails with TokenError, no
\* exchange request is sent and no token file is written.
C16_TimeoutIsTokenError ==
    (flow.timed_out /\ flow.main \notin {"joining", "joined"}
     /\ flow.served_at_test = 0) =>
        /\ flow.main = "raised" /\ flow.exc = "TokenError"
        /\ flow.exchange_requests = 0 /\ flow.file_writes = 0
        /\ token_file = None

\* C16 witness: the browser was opened, the listener was bound, 300 seconds
\* passed without a request and the flow has raised.
C16_Witness ==
    /\ flow.timed_out /\ flow.main = "raised" /\ flow.waited >= AUTH_TIMEOUT_SECONDS
    /\ flow.browser = "opened" /\ flow.listener = "serving"
    /\ flow.queries = <<>> /\ flow.lost = 0

\* C17: when the authorization URL is presented (the browser is opened) the
\* listener is already bound to the redirect port.
C17_ListenerBoundBeforeBrowser ==
    flow.bound_at_open # "unbound"

\* C18: when the first request the listener receives has no code, it is
\* answered 400, the listener serves nothing more, and the flow ends with
\* TokenError without an exchange request or a write of the token file.
C18_NoCodeIsTerminal ==
    (flow.queries # <<>> /\ flow.queries[1] = "no_code") =>
        /\ flow.responses = <<400>>
        /\ flow.listener = "ended" /\ ~flow.holder
        /\ flow.main \notin {"got_code", "returned"}
        /\ FlowOver => flow.exc = "TokenError"
        /\ flow.exchange_requests = 0 /\ flow.file_writes = 0
        /\ token_file = None

\* C18 witness: a request without code was answered 400, a second request
\* with a code found no listener, and the flow has raised.
C18_Witness ==
    /\ flow.queries = <<"no_code">> /\ flow.responses = <<400>>
    /\ flow.lost = 1
    /\ flow.main = "raised" /\ ~flow.timed_out

\* C19: after the wait has timed out and the flow has raised, no listener
\* thread is left running.
C19_NoListenerAfterTimeout ==
    (flow.timed_out /\ flow.main = "raised") => ~ListenerAlive

\* C30 (checked under SpecAuth): the listener serves at most one request
\* and has ended once it has served it; a code held or exchanged is the code
\* of that one request, every later request finding no listener.
C30_ListenerOneShot ==
    /\ Len(flow.queries) <= 1
    /\ flow.queries # <<>> => (flow.listener = "ended" /\ ~flow.bound)
    /\ flow.holder => flow.queries = <<"code">>
    /\ flow.exchange_requests > 0 => flow.queries = <<"code">>

\* C30 witness: the first request carried a code and was answered 200, a
\* second request found no listener, and the flow exchanged the code and
\* returned.
C30_Witness ==
    /\ flow.queries = <<"code">> /\ flow.responses = <<200>>
    /\ flow.lost = 1
    /\ flow.exchange_requests = 1
    /\ flow.main = "returned"

----------------------------------------------------------------------------
(* The authorization flow and the refresh token (checked under SpecToken) *)

\* The record in memory and the record on file both have a refresh token.
RefreshTokenKept ==
    /\ has_tokens(tokens)
    /\ ~LoadRaises(token_file)
    /\ has_tokens(_load_tokens(token_file))

\* The last call was a get_access_token whose authorization flow succeeded.
FlowSucceeded == IsGet /\ tcall.flow_runs = 1 /\ tcall.exc = "none"

\* What C29 says of one call
FlowOnlyWithoutRefreshToken ==
    IsGet =>
        /\ tcall.flow_runs = 1 <=> ~has_tokens(tcall.before)
        /\ tcall.flow_runs = 0 \/ tcall.flow_runs = 1
        /\ tcall.flow_runs = 1 => tcall.refresh_requests = 0
        /\ FlowSucceeded => RefreshTokenKept

\* C29: get_access_token runs the authorization flow if and only if the
\* record it starts with has no refresh token, and then sends no refresh
\* request; a successful flow leaves a refresh token in memory and on file,
\* and no later step (a call, or a new token manager loading the file) takes
\* it away, so the flow is never started again.
C29_FlowIffNoRefreshToken ==
    [][FlowOnlyWithoutRefreshToken' /\ (RefreshTokenKept => RefreshTokenKept')]_vars

\* C29 witness: a call that started without a refresh token has run the
\* flow, exchanged the code and saved a record with a refresh token.
C29_Witness ==
    /\ FlowSucceeded
    /\ ~has_tokens(tcall.before) /\ tcall.file_before = None
    /\ tcall.redirect = "code" /\ tcall.exchange_requests = 1
    /\ tcall.refresh_requests = 0
    /\ RefreshTokenKept

----------------------------------------------------------------------------
(* Properties of a run (checked under SpecMain) *)

\* C20: in a run where is_charging returns false the run ends at once: no
\* energy check, no token manager and no client constructed, no token or
\* battery request, no stop request.
C20_NotChargingEndsRun ==
    run.out.is_charging = "False" =>
        /\ run.out.energy_checks = 0
        /\ run.out.token_managers = 0 /\ run.out.clients = 0
        /\ run.out.token_requests = 0 /\ run.out.flow_runs = 0
        /\ run.out.battery_requests = 0
        /\ run.out.stop_requests = 0
        /\ run.out.status_requests = 1

\* C20 witness: the battery check is enabled, the charger is in mode "4"
\* with sta "1", and the run has ended with one status request.
C20_Witness ==
    /\ run.op = "smart.main"
    /\ run.out.is_charging = "False"
    /\ from_env(run.in.env).check_battery
    /\ run.zmo_before = ZAPPI_STOP_MODE /\ zappi.sta = "1"
    /\ run.out.status_requests = 1 /\ run.out.exit = 0

\* C21: a run that gets past its configuration sends exactly one status
\* request, whatever it does afterwards (a stop triggered by the battery
\* check included).
C21_OneStatusRequestPerRun ==
    (run.op # "none" /\ from_env(run.in.env).ok) => run.out.status_requests = 1

\* The battery check is switched on by the environment: CHECK_BATTERY is set
\* and reads "true" in lower case. Unset, it is off.
CheckBatteryEnabled(env) ==
    IsSome(env.check_battery_env) /\ PyLower(Val(env.check_battery_env)) = "true"

\* The status payload the run fetched shows the charger in the stop mode.
FoundStopped ==
    /\ run.op # "none"
    /\ run.in.statusResp.kind = "ok"
    /\ LET z == Val(run.in.statusResp.body).zappi
       IN  /\ IsSome(z)
           /\ Val(z) # <<>>
           /\ Val(z)[1].zmo = Some(ZAPPI_STOP_MODE)

\* C25: a run sends a battery request only if CHECK_BATTERY enables it and
\* is_charging returned True earlier in the run; a run that finds the
\* charger in the stop mode sends none.
C25_BatteryRequestOnlyWhenEnabledAndCharging ==
    /\ run.out.battery_requests > 0 =>
           /\ CheckBatteryEnabled(run.in.env)
           /\ run.out.is_charging = "True"
    /\ FoundStopped => run.out.battery_requests = 0

\* C25 witness: CHECK_BATTERY is "True", the charger was found charging and
\* the run has sent its battery request.
C25_Witness ==
    /\ run.op = "smart.main"
    /\ run.in.env.check_battery_env = Some("True")
    /\ run.out.is_charging = "True" /\ run.zmo_before # ZAPPI_STOP_MODE
    /\ run.out.battery_requests = 1
    /\ run.in.battery.kind = "json"

\* A run's result without the count of webhook posts
SansPosts(r) == [r EXCEPT !.notification_posts = 0]

\* The program a run record names, on given inputs
RunOf(op, in, toks, file, t) ==
    IF op = "smart.main" THEN main(in, toks, file, t) ELSE zappi_script(in, toks, file)

\* C26: send_discord_notification never raises, and a run started in the
\* same state with the same answers of the charger, the token endpoint and
\* the vehicle API does the same and ends the same whether the webhook is
\* configured or not and whatever the webhook answers.
C26_NotificationNeverGates ==
    [][run'.op # "none" =>
          \A w \in BOOLEAN, k \in NotifyResponses :
              LET alt == [run'.in EXCEPT !.env.webhook = w, !.notify = k]
              IN  /\ send_discord_notification(w, k).exc = "none"
                  /\ SansPosts(RunOf(run'.op, alt, tokens, token_file, now))
                         = SansPosts(run'.out)]_vars

\* C26 witness: the webhook is configured and answers with an error status,
\* and the run has gone through the battery check and ended normally.
C26_Witness ==
    /\ run.op = "smart.main"
    /\ run.in.env.webhook /\ run.in.notify.kind = "http_error"
    /\ run.out.notification_posts > 0
    /\ run.out.battery_requests = 1
    /\ run.out.exit = 0 /\ run.out.error = "none"

\* The call op read a battery level: at or above the threshold it sent one
\* stop request and no status request, below the threshold no stop request.
BatteryStopsAtThreshold(op) ==
    (run.op = op /\ run.out.battery_requests = 1
       /\ BatteryRequest(run.in.battery) = "none") =>
        IF Val(run.in.battery.percent) >= BATTERY_THRESHOLD
        THEN run.out.stop_requests = 1 /\ run.out.status_requests = 0
        ELSE run.out.stop_requests = 0

\* C24 (checked under SpecBattery): check_battery_level, in smartcar_client.py
\* and in smart.py, sends one stop request without a status re-check exactly
\* when percentRemaining >= 0.8, and no stop request below 0.8.
C24_StopsAtBatteryThreshold ==
    /\ BatteryStopsAtThreshold("check_battery_level")
    /\ BatteryStopsAtThreshold("smart.check_battery_level")

\* The run read a battery level at or above the threshold.
BatteryAtThreshold ==
    /\ run.out.battery_requests = 1
    /\ AtThreshold(run.in.battery)

\* C35: a run sends a stop request only if the delivered energy it checked
\* reached the energy threshold, or the battery check is enabled and the
\* level it read is >= 0.8; and only after is_charging returned True in the
\* run. A run sends at most one stop request.
C35_NoSpuriousStop ==
    (run.op # "none" /\ run.out.stop_requests > 0) =>
        /\ run.out.stop_requests = 1
        /\ \/ run.out.energy_checks > 0
           \/ CheckBatteryEnabled(run.in.env) /\ BatteryAtThreshold
        /\ run.out.is_charging = "True"

\* C35 witness: the battery check is enabled, the level read is exactly the
\* threshold, and the run has sent the stop request that stopped the charger.
C35_Witness ==
    /\ run.op = "smart.main"
    /\ run.out.is_charging = "True"
    /\ run.in.battery.percent = Some(BATTERY_THRESHOLD)
    /\ run.out.stop_requests = 1 /\ run.in.stopResp.kind = "ok"
    /\ zappi.zmo = ZAPPI_STOP_MODE /\ run.zmo_before # ZAPPI_STOP_MODE

\* The status payload the run fetched has a first zappi entry without zmo.
FoundNoMode ==
    /\ run.op # "none"
    /\ run.in.statusResp.kind = "ok"
    /\ LET z == Val(run.in.statusResp.body).zappi
       IN  /\ IsSome(z)
           /\ Val(z) # <<>>
           /\ Val(z)[1].zmo = None

\* The inputs of a run, the first zappi entry of the fetched payload given
\* the mode zmo
WithMode(in, zmo) ==
    LET entry == Val(Val(in.statusResp.body).zappi)[1]
    IN  [in EXCEPT !.statusResp.body =
                       Some([zappi |-> Some(<<[entry EXCEPT !.zmo = Some(zmo)]>>)])]

\* C36: a run whose status payload has a first zappi entry without zmo finds
\* is_charging true, and it does and ends as the same run does on a payload
\* with a charging mode: the absent mode skips nothing.
C36_AbsentModeIsCharging ==
    [][FoundNoMode' =>
          /\ run'.out.is_charging = "True"
          /\ run'.out = RunOf(run'.op, WithMode(run'.in, "1"), tokens, token_file, now)]_vars

\* C36 witness: a run of smart.py with the battery check enabled fetched a
\* payload without zmo and went on to the battery request.
C36_Witness ==
    /\ FoundNoMode
    /\ run.op = "smart.main"
    /\ run.out.is_charging = "True"
    /\ run.out.token_managers = 1 /\ run.out.battery_requests = 1

\* C28: a run that ends without error exits with 0, the run that finds the
\* charger not charging included; a run ended by a configuration, token,
\* vehicle or charger error exits with 1, and a configuration error comes
\* before any request.
C28_ExitCodes ==
    run.op # "none" =>
        /\ run.out.error = "none" => run.out.exit = 0
        /\ run.out.error \in {"config", "token", "vehicle", "charger"} => run.out.exit = 1
        /\ run.out.error = "config" =>
               /\ run.out.status_requests = 0 /\ run.out.stop_requests = 0
               /\ run.out.token_requests = 0 /\ run.out.battery_requests = 0
               /\ run.out.notification_posts = 0

----------------------------------------------------------------------------
(* Properties of process start (checked under SpecConfig) *)

\* battery.json is an object whose kwh_needed is a JSON number.
KwhIsNumber ==
    /\ run.file.kind = "object"
    /\ IsSome(run.file.kwh_needed)
    /\ Val(run.file.kwh_needed).kind = "num"

\* battery.json is an object whose kwh_needed is a numeric string.
KwhIsNumericString ==
    /\ run.file.kind = "object"
    /\ IsSome(run.file.kwh_needed)
    /\ Val(run.file.kwh_needed).kind = "numstr"

\* C32: load_energy_threshold never raises; it returns the kwh_needed value
\* when that is a number, and 25.0 when the file is missing, is not JSON, is
\* not an object, or has no kwh_needed or one that is not a number (a
\* numeric string may count either way).
C32_ThresholdOrDefault ==
    run.op = "load_energy_threshold" =>
        /\ run.out.exc = "none"
        /\ KwhIsNumber =>
               run.out.energy_threshold_kwh = Val(run.file.kwh_needed).tenths
        /\ KwhIsNumericString =>
               run.out.energy_threshold_kwh
                   \in {Val(run.file.kwh_needed).tenths, DEFAULT_KWH_NEEDED}
        /\ (~KwhIsNumber /\ ~KwhIsNumericString) =>
               run.out.energy_threshold_kwh = DEFAULT_KWH_NEEDED

\* C33: a configuration produced at process start has
\* energy_threshold_kwh > 0 and 0 < battery threshold <= 1.
C33_ThresholdsInRange ==
    (run.op = "Config.from_env" /\ run.out.exc = "none") =>
        /\ run.out.energy_threshold_kwh > 0
        /\ energy_threshold_kwh > 0
        /\ run.out.battery_threshold > 0 /\ run.out.battery_threshold <= 100

----------------------------------------------------------------------------
(* Properties of the token file's writers (checked under SpecScript) *)

\* The token file holds an expires_at that is not a number.
ExpiryNotANumber ==
    /\ IsSome(token_file)
    /\ IsSome(Val(token_file).members.expires_at)
    /\ Val(Val(token_file).members.expires_at).json # "number"

\* C34: every writer of the token file stores expires_at as a number of
\* epoch seconds, and the token manager evaluates its expiry test on the
\* file without error.
C34_ExpiresAtIsEpochNumber ==
    /\ ~ExpiryNotANumber
    /\ IsGet => tcall.exc \in {"none", "TokenError"}

----------------------------------------------------------------------------
(* Failures of the charger and notifications of is_charging (checked under *)
(* Spec)                                                                    *)

\* The evaluated payload has a first zappi entry whose che is missing or is
\* not a number: a string that float() rejects, or null.
EnergyUnusable ==
    /\ HasFirstEntry
    /\ \/ ~IsSome(FirstEntry.che)
       \/ Val(FirstEntry.che).kind \in {"badstr", "null"}

\* C22: when che of the first zappi entry is missing or cannot be coerced to
\* a number, check_energy_delivered fails with ChargingError.
C22_UnusableEnergyIsChargingError ==
    (last.op = "check_energy_delivered" /\ EnergyUnusable) =>
        last.exc = "ChargingError"

\* The call sent a status request that did not get through or was answered
\* with a non-success status.
StatusRequestFailed ==
    last.status_requests > 0 /\ last.statusResp.kind \in {"unreachable", "http_error"}

\* The payload the call evaluated has no zappi array or an empty one.
ZappiArrayUnusable ==
    /\ IsSome(last.seen)
    /\ \/ ~IsSome(Val(last.seen).zappi)
       \/ Val(Val(last.seen).zappi) = <<>>

\* The call sent a stop request that did not get through or was answered
\* with a non-success status.
StopRequestFailed ==
    last.stop_requests > 0 /\ last.stopResp.kind \in {"unreachable", "http_error"}

\* C23: a failed status request, a payload without a usable zappi array and
\* a failed stop request each make the call raise ChargingError.
C23_ChargerFailureIsChargingError ==
    (last.op # "none" /\ (StatusRequestFailed \/ ZappiArrayUnusable \/ StopRequestFailed))
        => last.exc = "ChargingError"

\* C23 witness: stop_charging found the charger charging, sent the stop
\* request, got a non-success answer and raised ChargingError.
C23_Witness ==
    /\ last.op = "stop_charging" /\ ~last.skip_check
    /\ last.status_requests = 1 /\ last.statusResp.kind = "ok"
    /\ last.stop_requests = 1 /\ last.stopResp.kind = "http_error"
    /\ last.exc = "ChargingError"

\* C27: is_charging called with notify left at its default sends one
\* notification when it returns True and none when it returns False.
C27_NotifiesOnlyWhenCharging ==
    (last.op = "is_charging" /\ last.notify /\ last.exc = "none") =>
        /\ last.value = "True" => last.notifications = 1
        /\ last.value = "False" => last.notifications = 0

====
